---- MODULE Spec2Model ----
(***************************************************************************)
(* Road-network reconstruction pipeline of create_map.py / road_LW.py /    *)
(* laldarwaja.py: merge_polylines, cluster_roads and the length filter of  *)
(* redraw_map / analyze_roads / main.                                       *)
(*                                                                         *)
(* Coordinates, distances, tolerances and lengths are fixed-point numbers  *)
(* in hundredths of a drawing unit: the point (1,0) is <<100, 0>> and the  *)
(* tolerance 0.01 is 1.  The points of the merger and the clusterer lie on  *)
(* a line, where math.hypot is exact; the roads of the width stage lie on   *)
(* the corners of a 10 x 5 rectangle, whose diagonal is rounded down to a   *)
(* hundredth.  Means (np.mean) are in thousandths of a drawing unit and     *)
(* angles in thousandths of a degree.                                       *)
(***************************************************************************)
EXTENDS Integers, Sequences, FiniteSets, TLC

\* ------------------------------------------------------------------ bounds
\* Largest number of fragments in an input batch of merge_polylines.
MaxFrags == 3
\* Largest number of points of an input fragment.
MaxPts == 2
\* Points are <<100 * k, 0>> for k in 0..MaxCoord.
MaxCoord == 4
\* Largest number of paths in an input list of cluster_roads called on its own.
MaxRoads == 3
\* Largest number of points of such a path.
MaxRoadPts == 3
\* The points of such a path are <<100 * k, 0>> for k in 0..MaxRoadCoord.
MaxRoadCoord == 2
\* Largest number of emitted roads when the width stage is run on its own.
MaxFinalRoads == 3
\* Largest number of points of such a road.
MaxFinalPts == 2
\* Largest number of raw segments (explicit widths) of such a run.
MaxSegments == 3
\* Largest number of points of an argument of average_polyline_distance called
\* on its own.
MaxDistPts == 3
\* Largest number of LWPOLYLINE entities of a drawing.
MaxEntities == 2
\* Largest number of vertices of such an entity.
MaxEntityPts == 2

\* ------------------------------------------------------- python list helpers
\* s[-1]
Last(s) == s[Len(s)]
\* s[:-1]
Front(s) == SubSeq(s, 1, Len(s) - 1)
\* list(reversed(s))
Reverse(s) == [i \in 1..Len(s) |-> s[Len(s) + 1 - i]]
\* Mutant of RemoveAt: the pop is forgotten.
RemoveAt_Forgotten(s, i) == s
\* the list after list.pop(i) (i is the 1-based position of python's index i-1)
RemoveAt(s, i) == SubSeq(s, 1, i - 1) \o SubSeq(s, i + 1, Len(s))
\* the set of elements of a list
Range(s) == {s[i] : i \in 1..Len(s)}

RECURSIVE SumSeq(_)
SumSeq(s) == IF s = <<>> THEN 0 ELSE s[1] + SumSeq(Tail(s))

RECURSIVE Flatten(_)
Flatten(ss) == IF ss = <<>> THEN <<>> ELSE ss[1] \o Flatten(Tail(ss))

\* ------------------------------------------------------------- geometry
RECURSIVE SqrtIter(_, _, _)
SqrtIter(n, lo, hi) ==
    IF lo >= hi THEN lo
    ELSE LET mid == (lo + hi + 1) \div 2
         IN  IF mid * mid <= n THEN SqrtIter(n, mid, hi)
                               ELSE SqrtIter(n, lo, mid - 1)

Abs(x) == IF x < 0 THEN -x ELSE x

\* math.hypot(dx, dy): sqrt(dx*dx + dy*dy), which is |dx| when dy = 0 and
\* |dy| when dx = 0, and rounded down to a hundredth otherwise (the square
\* root is searched between 0 and |dx| + |dy|)
hypot(dx, dy) ==
    IF dy = 0 THEN Abs(dx)
    ELSE IF dx = 0 THEN Abs(dy)
    ELSE SqrtIter(dx * dx + dy * dy, 0, Abs(dx) + Abs(dy))

dist(p1, p2) == hypot(p2[1] - p1[1], p2[2] - p1[2])

polyline_length(points) ==
    SumSeq([i \in 1..(Len(points) - 1) |-> dist(points[i], points[i + 1])])

\* math.degrees(math.atan2(dy, dx)) in thousandths of a degree, for the
\* directions of the model: along an axis, or with |dx| = 2 |dy|
\* (atan(1/2) = 26.565 degrees)
atan2_degrees(dy, dx) ==
    CASE dy = 0 /\ dx >= 0 -> 0
      [] dy = 0 /\ dx < 0 -> 180000
      [] dx = 0 /\ dy > 0 -> 90000
      [] dx = 0 /\ dy < 0 -> -90000
      [] Abs(dx) = 2 * Abs(dy) /\ dx > 0 /\ dy > 0 -> 26565
      [] Abs(dx) = 2 * Abs(dy) /\ dx < 0 /\ dy > 0 -> 153435
      [] Abs(dx) = 2 * Abs(dy) /\ dx < 0 /\ dy < 0 -> -153435
      [] Abs(dx) = 2 * Abs(dy) /\ dx > 0 /\ dy < 0 -> -26565

\* bearing(p1, p2), in thousandths of a degree
bearing(p1, p2) ==
    LET ang == atan2_degrees(p2[2] - p1[2], p2[1] - p1[1])
    IN  (ang + 360000) % 360000

\* Mutant of angle_difference: the angle between undirected lines, folded
\* into [0, 90] degrees.
angle_difference_Undirected(a1, a2) ==
    LET diff == Abs(a1 - a2) % 180000
    IN  IF diff <= 90000 THEN diff ELSE 180000 - diff
\* diff = abs(a1 - a2) % 360; return diff if diff <= 180 else 360 - diff
angle_difference(a1, a2) ==
    LET diff == Abs(a1 - a2) % 360000
    IN  IF diff <= 180000 THEN diff ELSE 360000 - diff

\* np.mean of a non-empty list (exact on the lists of the model)
Mean(s) == SumSeq(s) \div Len(s)

\* Mutant of MinDist: only the first vertex of the candidate is measured.
MinDist_First(p, pl) == dist(p, pl[1])
\* min(dist(p, q) for q in pl)
MinDist(p, pl) ==
    LET ds == {dist(p, pl[k]) : k \in 1..Len(pl)}
    IN  CHOOSE d \in ds : \A e \in ds : d <= e

\* ------------------------------------------------------------- inputs
Points == {<<100 * k, 0>> : k \in 0..MaxCoord}

PolylinesUpTo(n) == UNION {[1..m -> Points] : m \in 1..n}

Batches == UNION {[1..k -> PolylinesUpTo(MaxPts)] : k \in 0..MaxFrags}

RoadPoints == {<<100 * k, 0>> : k \in 0..MaxRoadCoord}

RoadLists ==
    UNION {[1..k -> UNION {[1..m -> RoadPoints] : m \in 1..MaxRoadPts}] :
              k \in 0..MaxRoads}

\* merge tolerances: 0, 0.01 (MERGE_TOLERANCE-like: only coincident points on
\* this grid), 1 (neighbouring grid points are at exactly the tolerance) and
\* 1.5 (neighbouring grid points are within tolerance)
Tolerances == {0, 1, 100, 150}

\* cluster distances: 1 and 1.5 drawing units
ClusterDistances == {100, 150}

\* min_length_units / MIN_ROAD_LENGTH_UNITS: 1 and 2 drawing units
MinLengths == {100, 200}

\* max_roads / MAX_ROADS_OUTPUT
MaxOutputs == {1, 2}

\* the three copies of the pipeline
Impls == {"create_map", "laldarwaja", "road_LW"}

\* the points of the roads of the width stage: the corners of the rectangle of
\* the roads (0,0)-(10,0) and (0,5)-(10,5)
WidthPoints == {<<1000 * i, 500 * j>> : i \in 0..1, j \in 0..1}

\* roads as the length filter leaves them: of positive length
WidthRoads ==
    {r \in UNION {[1..m -> WidthPoints] : m \in 2..MaxFinalPts} :
        polyline_length(r) > 0}

FinalRoadLists == UNION {[1..k -> WidthRoads] : k \in 0..MaxFinalRoads}

\* explicit widths of raw segments, in thousandths: none, 6 and 12 units
ExplicitWidths == {0, 6000, 12000}

WidthLists == UNION {[1..k -> ExplicitWidths] : k \in 0..MaxSegments}

\* PARALLEL_ANGLE_TOL (60 degrees) and a right angle, in thousandths of a degree
PARALLEL_ANGLE_TOL == 60000

AngleTols == {PARALLEL_ANGLE_TOL, 90000}

\* samples: int = 10
DefaultSamples == 10

\* arguments of average_polyline_distance called on its own
DistPolylines == UNION {[1..m -> WidthPoints] : m \in 0..MaxDistPts}

SampleCounts == {2, 5, DefaultSamples}

\* the vertices of the entities: on a line, at 0, 1 and 11 drawing units, so
\* that an entity has length 0, 1, 10 or 11
EntityPoints == {<<0, 0>>, <<100, 0>>, <<1100, 0>>}

\* an entity: whether its layer is a road layer, its vertices and, for each
\* vertex, the mean of its start and end width (in thousandths); or an entity
\* that raises when it is read
Entities ==
    {[malformed |-> TRUE]} \cup
    UNION {[malformed : {FALSE}, road_layer : BOOLEAN,
            pts : [1..m -> EntityPoints], vws : [1..m -> {0, 6000}]] :
              m \in 0..MaxEntityPts}

EntityLists == UNION {[1..k -> Entities] : k \in 0..MaxEntities}

VARIABLES
    polylines,      \* merge_polylines: the argument
    tolerance,      \* merge_polylines: the argument
    pool,           \* merge_polylines / cluster_roads: the working list
    current,        \* merge_polylines: the accumulator
    merged,         \* merge_polylines: the result list
    roads,              \* cluster_roads: the argument
    cluster_distance,   \* cluster_roads: the argument
    base,               \* cluster_roads: the accumulator
    clustered,          \* cluster_roads: the result list (out / clustered)
    final_roads,        \* redraw_map / analyze_roads / main: the emitted roads
    min_road_length,    \* MIN_ROAD_LENGTH_UNITS / min_length_units
    max_roads_output,   \* MAX_ROADS_OUTPUT / max_roads
    impl,               \* which copy of the pipeline filters
    poolIds,        \* history: for each pool entry, its index in the input list
    currentParts,   \* history: the pieces stitched into current, in order
    mergedParts,    \* history: the pieces of each entry of merged
    baseIds,        \* history: the input paths folded into base, in order
    clusteredIds,   \* history: the input paths of each entry of clustered
    road_widths,    \* extract_roads: the explicit width of each raw segment
    angle_tol,      \* PARALLEL_ANGLE_TOL / angle_tol
    global_avg_width_units, \* redraw_map / analyze_roads: mean explicit width
    results,        \* analyze_roads: the records of the emitted roads
    pl1,            \* average_polyline_distance: the argument (target)
    pl2,            \* average_polyline_distance: the argument (candidate)
    samples,        \* average_polyline_distance: the argument
    dists,          \* average_polyline_distance: the minimum of each sample
    avg_dist,       \* average_polyline_distance: the returned value
    road_polylines, \* road_LW.main: the list passed to merge_polylines
    objects,        \* the contents of the input polyline objects, by position
    current_obj,    \* road_LW: the input object current is (0: a new list)
    mergedObjs,     \* road_LW: the input object each entry of merged is
    base_obj,       \* road_LW: the input object base is (0: a new list)
    clusteredObjs,  \* road_LW: the input object each entry of clustered is
    entities,       \* extract_roads: the LWPOLYLINE entities of the drawing
    entity_i,       \* extract_roads: the number of entities gone through
    returned,       \* extract_roads: the returned tuple (<<>> before the return)
    pc              \* position in the code

mergeVars == <<polylines, tolerance, current, merged, currentParts, mergedParts>>
clusterVars == <<roads, cluster_distance, base, clustered, baseIds, clusteredIds>>
filterVars == <<final_roads, min_road_length, max_roads_output, impl>>
widthVars == <<road_widths, angle_tol, global_avg_width_units, results>>
distVars == <<pl1, pl2, samples, dists, avg_dist>>
callerVars ==
    <<road_polylines, objects, current_obj, mergedObjs, base_obj, clusteredObjs>>
extractVars == <<entities, entity_i, returned>>
reportVars == <<widthVars, distVars, callerVars, extractVars>>

vars == <<mergeVars, clusterVars, filterVars, reportVars, pool, poolIds, pc>>

\* ------------------------------------------------- merge_polylines, the scan
\* Mutant of MatchCase: the tail-to-tail branch is missing.
MatchCase_NoTailToTail(cur, other, tol) ==
    IF dist(Last(cur), other[1]) < tol THEN "tail_to_head"
    ELSE IF dist(cur[1], Last(other)) < tol THEN "head_to_tail"
    ELSE IF dist(cur[1], other[1]) < tol THEN "head_to_head"
    ELSE "none"

\* Mutant of MatchCase: the head-to-tail branch is missing.
MatchCase_NoHeadToTail(cur, other, tol) ==
    IF dist(Last(cur), other[1]) < tol THEN "tail_to_head"
    ELSE IF dist(cur[1], other[1]) < tol THEN "head_to_head"
    ELSE IF dist(Last(cur), Last(other)) < tol THEN "tail_to_tail"
    ELSE "none"

\* Mutant of MatchCase: an endpoint up to 1 unit beyond the tolerance matches.
MatchCase_Loose(cur, other, tol) ==
    IF dist(Last(cur), other[1]) <= tol + 100 THEN "tail_to_head"
    ELSE IF dist(cur[1], Last(other)) <= tol + 100 THEN "head_to_tail"
    ELSE IF dist(cur[1], other[1]) <= tol + 100 THEN "head_to_head"
    ELSE IF dist(Last(cur), Last(other)) <= tol + 100 THEN "tail_to_tail"
    ELSE "none"

\* Mutant of MatchCase: the tail-to-head test accepts a head at exactly the
\* tolerance.
MatchCase_TailToHeadNotStrict(cur, other, tol) ==
    IF dist(Last(cur), other[1]) <= tol THEN "tail_to_head"
    ELSE IF dist(cur[1], Last(other)) < tol THEN "head_to_tail"
    ELSE IF dist(cur[1], other[1]) < tol THEN "head_to_head"
    ELSE IF dist(Last(cur), Last(other)) < tol THEN "tail_to_tail"
    ELSE "none"

\* Mutant of MatchCase: an endpoint at exactly the tolerance matches.
MatchCase_NotStrict(cur, other, tol) ==
    IF dist(Last(cur), other[1]) <= tol THEN "tail_to_head"
    ELSE IF dist(cur[1], Last(other)) <= tol THEN "head_to_tail"
    ELSE IF dist(cur[1], other[1]) <= tol THEN "head_to_head"
    ELSE IF dist(Last(cur), Last(other)) <= tol THEN "tail_to_tail"
    ELSE "none"

\* The if/elif chain of the for loop body: which splice applies to `other`.
MatchCase(cur, other, tol) ==
    IF dist(Last(cur), other[1]) < tol THEN "tail_to_head"
    ELSE IF dist(cur[1], Last(other)) < tol THEN "head_to_tail"
    ELSE IF dist(cur[1], other[1]) < tol THEN "head_to_head"
    ELSE IF dist(Last(cur), Last(other)) < tol THEN "tail_to_tail"
    ELSE "none"

\* Mutant of FirstMatch: the last index that matches is taken.
FirstMatch_Last(cur, pl, tol) ==
    LET hits == {i \in 1..Len(pl) : MatchCase(cur, pl[i], tol) # "none"}
    IN  IF hits = {} THEN 0
        ELSE CHOOSE i \in hits : \A j \in hits : i >= j

\* for i, other in enumerate(pool): ... break -- the first index that matches
\* (0 when the for loop ends without a break)
FirstMatch(cur, pl, tol) ==
    LET hits == {i \in 1..Len(pl) : MatchCase(cur, pl[i], tol) # "none"}
    IN  IF hits = {} THEN 0
        ELSE CHOOSE i \in hits : \A j \in hits : i <= j

\* Mutant of TailToHead: the matched head of other is kept.
TailToHead_KeepAll(cur, other) == cur \o other
\* current.extend(other[1:])
TailToHead(cur, other) == cur \o Tail(other)
\* Mutant of HeadToTail: the shared endpoint is kept twice.
HeadToTail_KeepAll(cur, other) == other \o cur
\* current = other[:-1] + current
HeadToTail(cur, other) == Front(other) \o cur
\* Mutant of HeadToHead: other is not reversed.
HeadToHead_NoReverse(cur, other) == Front(other) \o cur
\* current = list(reversed(other))[:-1] + current
HeadToHead(cur, other) == Front(Reverse(other)) \o cur
\* Mutant of TailToTail: other is not reversed.
TailToTail_NoReverse(cur, other) == cur \o Tail(other)
\* current.extend(list(reversed(other))[1:])
TailToTail(cur, other) == cur \o Tail(Reverse(other))

Splice(kind, cur, other) ==
    CASE kind = "tail_to_head" -> TailToHead(cur, other)
      [] kind = "head_to_tail" -> HeadToTail(cur, other)
      [] kind = "head_to_head" -> HeadToHead(cur, other)
      [] kind = "tail_to_tail" -> TailToTail(cur, other)

\* history: where the piece of `other` goes, mirroring Splice
SpliceParts(kind, parts, id) ==
    CASE kind = "tail_to_head" -> parts \o << <<id, kind>> >>
      [] kind = "head_to_tail" -> << <<id, kind>> >> \o parts
      [] kind = "head_to_head" -> << <<id, kind>> >> \o parts
      [] kind = "tail_to_tail" -> parts \o << <<id, kind>> >>

\* create_map and laldarwaja work on copies: the caller's list and the input
\* objects are not followed
CallerIdle ==
    /\ road_polylines = <<>>
    /\ objects = <<>>
    /\ current_obj = 0
    /\ mergedObjs = <<>>
    /\ base_obj = 0
    /\ clusteredObjs = <<>>

\* the raw segments are given: no extraction is followed
ExtractIdle ==
    /\ entities = <<>>
    /\ entity_i = 0
    /\ returned = <<>>

\* no width stage and no call of average_polyline_distance has begun
ReportIdle ==
    /\ CallerIdle
    /\ ExtractIdle
    /\ global_avg_width_units = 0
    /\ results = <<>>
    /\ pl1 = <<>>
    /\ pl2 = <<>>
    /\ samples = DefaultSamples
    /\ dists = <<>>
    /\ avg_dist = 0

\* ----------------------------------------------------------------- Init
\* the entry of merge_polylines, whatever the widths extraction gave
MergeEntry ==
    /\ polylines \in Batches
    /\ tolerance \in Tolerances
    /\ pool = polylines                 \* pool = [list(pl) for pl in polylines]
    /\ poolIds = [i \in 1..Len(polylines) |-> i]
    /\ current = <<>>
    /\ currentParts = <<>>
    /\ merged = <<>>
    /\ mergedParts = <<>>
    /\ roads = <<>>
    /\ cluster_distance = 0
    /\ base = <<>>
    /\ baseIds = <<>>
    /\ clustered = <<>>
    /\ clusteredIds = <<>>
    /\ final_roads = <<>>
    /\ min_road_length = 0
    /\ max_roads_output = 0
    /\ impl = "none"
    /\ angle_tol = PARALLEL_ANGLE_TOL
    /\ ReportIdle
    /\ pc = "merge"

\* a batch of raw segments without explicit widths
Init ==
    /\ MergeEntry
    /\ road_widths = [i \in 1..Len(polylines) |-> 0]

\* ------------------------------------------------------ merge_polylines
\* while pool: current = pool.pop(); changed = True
MergePop ==
    /\ pc = "merge"
    /\ pool # <<>>
    /\ current' = Last(pool)
    /\ currentParts' = << <<Last(poolIds), "seed">> >>
    /\ pool' = Front(pool)
    /\ poolIds' = Front(poolIds)
    /\ pc' = "merge_scan"
    /\ UNCHANGED <<polylines, tolerance, merged, mergedParts, clusterVars, filterVars, reportVars>>

\* One pass of the for loop that ends in a break: splice the first matching
\* pool entry into current, pop it, changed = True.
MergeStitch(kind) ==
    /\ pc = "merge_scan"
    /\ LET i == FirstMatch(current, pool, tolerance)
       IN  /\ i # 0
           /\ MatchCase(current, pool[i], tolerance) = kind
           /\ current' = Splice(kind, current, pool[i])
           /\ currentParts' = SpliceParts(kind, currentParts, poolIds[i])
           /\ pool' = RemoveAt(pool, i)
           /\ poolIds' = RemoveAt(poolIds, i)
    /\ UNCHANGED <<polylines, tolerance, merged, mergedParts, pc,
                   clusterVars, filterVars, reportVars>>

MergeTailToHead == MergeStitch("tail_to_head")
MergeHeadToTail == MergeStitch("head_to_tail")
MergeHeadToHead == MergeStitch("head_to_head")
MergeTailToTail == MergeStitch("tail_to_tail")

\* One pass of the for loop without a break: changed stays False, the while
\* loop ends and merged.append(current).
MergeAppend ==
    /\ pc = "merge_scan"
    /\ FirstMatch(current, pool, tolerance) = 0
    /\ merged' = Append(merged, current)
    /\ mergedParts' = Append(mergedParts, currentParts)
    /\ pc' = "merge"
    /\ UNCHANGED <<polylines, tolerance, pool, poolIds, current, currentParts,
                   clusterVars, filterVars, reportVars>>

\* while pool: is false -- return merged
MergeReturn ==
    /\ pc = "merge"
    /\ pool = <<>>
    /\ pc' = "merged"
    /\ UNCHANGED <<mergeVars, clusterVars, filterVars, pool, poolIds, reportVars>>

MergeNext ==
    \/ MergePop
    \/ MergeTailToHead
    \/ MergeHeadToTail
    \/ MergeHeadToHead
    \/ MergeTailToTail
    \/ MergeAppend
    \/ MergeReturn

Next == MergeNext

Spec == Init /\ [][Next]_vars

\* ------------------------------------------------------------ cluster_roads
\* Mutant of CloseEnds: the comparison is not strict.
CloseEnds_NotStrict(b, other, d) ==
    \E p1 \in {b[1], Last(b)}, p2 \in {other[1], Last(other)} : dist(p1, p2) <= d
\* any(dist(p1, p2) < cluster_distance for p1 in [base[0], base[-1]]
\*                                     for p2 in [other[0], other[-1]])
CloseEnds(b, other, d) ==
    \E p1 \in {b[1], Last(b)}, p2 \in {other[1], Last(other)} : dist(p1, p2) < d

\* Mutant of Absorb: the candidate's points are prepended.
Absorb_Prepend(b, other) ==
    SelectSeq(other, LAMBDA pt : pt \notin Range(b)) \o b
\* Mutant of Absorb: only the candidate's first point is taken.
Absorb_FirstOnly(b, other) ==
    b \o SelectSeq(<<other[1]>>, LAMBDA pt : pt \notin Range(b))
\* base += [pt for pt in other if pt not in base]
Absorb(b, other) == b \o SelectSeq(other, LAMBDA pt : pt \notin Range(b))

\* The for loop over the pool, from position i on: <<base, kill>> at its end.
\* The pool is not changed by the loop; base grows while it runs.
RECURSIVE ClusterFor(_, _, _, _, _)
ClusterFor(b, pl, i, kill, d) ==
    IF i > Len(pl) THEN <<b, kill>>
    ELSE IF CloseEnds(b, pl[i], d)
         THEN ClusterFor(Absorb(b, pl[i]), pl, i + 1, Append(kill, i), d)
         ELSE ClusterFor(b, pl, i + 1, kill, d)

\* for k in sorted(kill, reverse=True): pool.pop(k)
RECURSIVE PopAll(_, _)
PopAll(pl, kill) ==
    IF kill = <<>> THEN pl ELSE PopAll(RemoveAt(pl, Last(kill)), Front(kill))

\* cluster_roads called on its own, on any list of paths
ClusterInit ==
    /\ roads \in RoadLists
    /\ cluster_distance \in ClusterDistances
    /\ pool = roads                     \* pool = [list(r) for r in roads]
    /\ poolIds = [i \in 1..Len(roads) |-> i]
    /\ base = <<>>
    /\ baseIds = <<>>
    /\ clustered = <<>>
    /\ clusteredIds = <<>>
    /\ polylines = <<>>
    /\ tolerance = 0
    /\ current = <<>>
    /\ currentParts = <<>>
    /\ merged = <<>>
    /\ mergedParts = <<>>
    /\ final_roads = <<>>
    /\ min_road_length = 0
    /\ max_roads_output = 0
    /\ impl = "none"
    /\ road_widths = <<>>
    /\ angle_tol = PARALLEL_ANGLE_TOL
    /\ ReportIdle
    /\ pc = "cluster"

\* clustered = cluster_roads(merged, CLUSTER_DISTANCE): the call
ClusterCall ==
    /\ pc = "merged"
    /\ roads' = merged
    /\ \E d \in ClusterDistances :
          /\ d >= tolerance
          /\ cluster_distance' = d
    /\ pool' = merged
    /\ poolIds' = [i \in 1..Len(merged) |-> i]
    /\ pc' = "cluster"
    /\ UNCHANGED <<mergeVars, base, baseIds, clustered, clusteredIds, filterVars, reportVars>>

\* while pool: base = pool.pop(); changed = True
ClusterPop ==
    /\ pc = "cluster"
    /\ pool # <<>>
    /\ base' = Last(pool)
    /\ baseIds' = <<Last(poolIds)>>
    /\ pool' = Front(pool)
    /\ poolIds' = Front(poolIds)
    /\ pc' = "cluster_scan"
    /\ UNCHANGED <<mergeVars, roads, cluster_distance, clustered, clusteredIds,
                   filterVars, reportVars>>

\* One pass of the for loop that absorbs at least one candidate, and the pops
\* of the absorbed candidates; changed = True.
ClusterAbsorb ==
    /\ pc = "cluster_scan"
    /\ LET r == ClusterFor(base, pool, 1, <<>>, cluster_distance)
       IN  /\ r[2] # <<>>
           /\ base' = r[1]
           /\ baseIds' = baseIds \o [k \in 1..Len(r[2]) |-> poolIds[r[2][k]]]
           /\ pool' = PopAll(pool, r[2])
           /\ poolIds' = PopAll(poolIds, r[2])
    /\ UNCHANGED <<mergeVars, roads, cluster_distance, clustered, clusteredIds,
                   filterVars, pc, reportVars>>

\* One pass of the for loop that absorbs nothing: the while loop ends and
\* out.append(base).
ClusterAppend ==
    /\ pc = "cluster_scan"
    /\ ClusterFor(base, pool, 1, <<>>, cluster_distance)[2] = <<>>
    /\ clustered' = Append(clustered, base)
    /\ clusteredIds' = Append(clusteredIds, baseIds)
    /\ pc' = "cluster"
    /\ UNCHANGED <<mergeVars, roads, cluster_distance, base, baseIds,
                   filterVars, pool, poolIds, reportVars>>

\* while pool: is false -- return out
ClusterReturn ==
    /\ pc = "cluster"
    /\ pool = <<>>
    /\ pc' = "clustered"
    /\ UNCHANGED <<mergeVars, clusterVars, filterVars, pool, poolIds, reportVars>>

ClusterNext ==
    \/ ClusterPop
    \/ ClusterAbsorb
    \/ ClusterAppend
    \/ ClusterReturn

ClusterSpec == ClusterInit /\ [][ClusterNext]_vars

\* ------------------- merge_polylines or cluster_roads run to their return
\* a call of merge_polylines on a batch, with a tolerance under which nothing
\* is stitched or one under which neighbouring grid points are, or a call of
\* cluster_roads on a list of paths
TerminationInit ==
    \/ Init /\ tolerance \in {0, 150}
    \/ ClusterInit

TerminationNext ==
    \/ MergeNext
    \/ ClusterNext

\* the interpreter executes the next statement as long as there is one
TerminationSpec ==
    TerminationInit /\ [][TerminationNext]_vars /\ WF_vars(TerminationNext)

\* ------------------------------------------- the length filter and the cut
\* polyline_length(r) >= MIN_ROAD_LENGTH_UNITS in create_map,
\* polyline_length(r) > min_length_units in laldarwaja and road_LW
Passes(im, r, min) ==
    IF im = "create_map" THEN polyline_length(r) >= min
                         ELSE polyline_length(r) > min

\* s[:n]
Take(s, n) == SubSeq(s, 1, IF n < Len(s) THEN n ELSE Len(s))

\* Mutant of FinalRoads: the list is cut before it is filtered.
FinalRoads_CutFirst(im, cl, min, max) ==
    SelectSeq(Take(cl, max), LAMBDA r : Passes(im, r, min))
\* Mutant of FinalRoads: the comparison is reversed.
FinalRoads_Reversed(im, cl, min, max) ==
    Take(SelectSeq(cl, LAMBDA r : ~Passes(im, r, min)), max)
\* final_roads = [r for r in clustered if polyline_length(r) >= MIN][:MAX]
FinalRoads(im, cl, min, max) ==
    Take(SelectSeq(cl, LAMBDA r : Passes(im, r, min)), max)

Filter ==
    /\ pc = "clustered"
    /\ \E im \in Impls, min \in MinLengths, max \in MaxOutputs :
          /\ impl' = im
          /\ min_road_length' = min
          /\ max_roads_output' = max
          /\ final_roads' = FinalRoads(im, clustered, min, max)
    /\ pc' = "done"
    /\ UNCHANGED <<mergeVars, clusterVars, pool, poolIds, reportVars>>

PipelineNext ==
    \/ MergeNext
    \/ ClusterCall
    \/ ClusterNext
    \/ Filter

PipelineSpec == Init /\ [][PipelineNext]_vars

\* ----------------------------------------------- average_polyline_distance
\* The while loop of one sample: walk to the first vertex at or beyond the
\* target length.  acc < step * (s + 1) with step = tot_len / samples is
\* compared as acc * samples < tot_len * (s + 1); seg_i counts from 0.
\* The result is <<seg_i, acc, p>>.
RECURSIVE Advance(_, _, _, _, _, _, _)
Advance(a, n, tot_len, s, seg_i, acc, p) ==
    IF seg_i < Len(a) - 1 /\ acc * n < tot_len * (s + 1)
    THEN Advance(a, n, tot_len, s, seg_i + 1,
                 acc + dist(a[seg_i + 1], a[seg_i + 2]), a[seg_i + 2])
    ELSE <<seg_i, acc, p>>

\* for s in range(samples): the point p of each sample, in order
RECURSIVE SamplePoints(_, _, _, _, _, _, _)
SamplePoints(a, n, tot_len, s, seg_i, acc, p) ==
    IF s >= n THEN <<>>
    ELSE LET w == Advance(a, n, tot_len, s, seg_i, acc, p)
         IN  <<w[3]>> \o SamplePoints(a, n, tot_len, s + 1, w[1], w[2], w[3])

\* dists: min(dist(p, q) for q in pl2) of each sample
SampleDists(a, b, n) ==
    LET pts == SamplePoints(a, n, polyline_length(a), 0, 0, 0, a[1])
    IN  [k \in 1..n |-> MinDist(pts[k], b)]

\* the returned mean, in thousandths of a drawing unit
average_polyline_distance(a, b, n) ==
    IF a = <<>> \/ b = <<>> THEN 0
    ELSE IF polyline_length(a) <= 0 THEN 0
    ELSE LET ds == SampleDists(a, b, n)
         IN  Mean([k \in 1..n |-> 10 * ds[k]])

\* ------------------------------------------------------ find_parallel_edge
\* Mutant of Qualifies: the comparison with the angle tolerance is strict.
Qualifies_Strict(main_ang, other, tol) ==
    angle_difference(main_ang, bearing(other[1], Last(other))) < tol
\* angle_difference(main_ang, bearing(other[0], other[-1])) <= angle_tol
Qualifies(main_ang, other, tol) ==
    angle_difference(main_ang, bearing(other[1], Last(other))) <= tol

\* Mutant of Better: a later candidate at the same distance replaces the best.
Better_OrEqual(d, best_d) == d > 0 /\ (best_d = -1 \/ d <= best_d)
\* Mutant of Better: a candidate at distance 0 is accepted.
Better_ZeroToo(d, best_d) == best_d = -1 \/ d < best_d
\* d > 0 and (best_d is None or d < best_d); None is -1
Better(d, best_d) == d > 0 /\ (best_d = -1 \/ d < best_d)

\* The for loop over all_roads from position i on.  The target is the road at
\* position t (`other is target` compares objects); best is a position, 0 for
\* None.  The result is <<best, best_d>>.
RECURSIVE ParallelFor(_, _, _, _, _, _)
ParallelFor(t, all_roads, tol, i, best, best_d) ==
    IF i > Len(all_roads) THEN <<best, best_d>>
    ELSE LET other == all_roads[i]
             d == average_polyline_distance(all_roads[t], other, DefaultSamples)
         IN  IF i = t \/ Len(other) < 2
                THEN ParallelFor(t, all_roads, tol, i + 1, best, best_d)
             ELSE IF /\ Qualifies(bearing(all_roads[t][1], Last(all_roads[t])),
                                  other, tol)
                     /\ Better(d, best_d)
                THEN ParallelFor(t, all_roads, tol, i + 1, i, d)
             ELSE ParallelFor(t, all_roads, tol, i + 1, best, best_d)

\* Mutant of find_parallel_edge: best_d is returned as it is, None (-1) too.
find_parallel_edge_NoDefault(t, all_roads, tol) ==
    IF Len(all_roads[t]) < 2 THEN <<0, 0>>
    ELSE ParallelFor(t, all_roads, tol, 1, 0, -1)
\* <<best, width>>: the position of the parallel edge (0 for None) and its
\* average distance, in thousandths (0 when there is none)
find_parallel_edge(t, all_roads, tol) ==
    IF Len(all_roads[t]) < 2 THEN <<0, 0>>
    ELSE LET r == ParallelFor(t, all_roads, tol, 1, 0, -1)
         IN  <<r[1], IF r[2] # -1 THEN r[2] ELSE 0>>

\* ------------------------------------------------- the width of each road
\* Mutant of GlobalAverage: the segments without explicit width are averaged in.
GlobalAverage_WithZeros(ws) ==
    IF SelectSeq(ws, LAMBDA w : w > 0) # <<>> THEN Mean(ws) ELSE 0
\* Mutant of GlobalAverage: the first explicit width is taken.
GlobalAverage_First(ws) ==
    LET explicit_w == SelectSeq(ws, LAMBDA w : w > 0)
    IN  IF explicit_w # <<>> THEN explicit_w[1] ELSE 0
\* explicit_w = [w for w in road_widths if w > 0]
\* global_avg_width_units = float(np.mean(explicit_w)) if explicit_w else 0.0
GlobalAverage(ws) ==
    LET explicit_w == SelectSeq(ws, LAMBDA w : w > 0)
    IN  IF explicit_w # <<>> THEN Mean(explicit_w) ELSE 0

\* results.append({...}): the record of a road.  The fields in metres (the
\* same numbers times the scale factor) are left out.
Road(i, r, w_units) ==
    [index |-> i, start |-> r[1], end |-> Last(r),
     length_units |-> polyline_length(r), width_units |-> w_units, points |-> r]

\* no merge, cluster or filter has run
StagesIdle ==
    /\ polylines = <<>>
    /\ tolerance = 0
    /\ pool = <<>>
    /\ poolIds = <<>>
    /\ current = <<>>
    /\ currentParts = <<>>
    /\ merged = <<>>
    /\ mergedParts = <<>>
    /\ roads = <<>>
    /\ cluster_distance = 0
    /\ base = <<>>
    /\ baseIds = <<>>
    /\ clustered = <<>>
    /\ clusteredIds = <<>>
    /\ min_road_length = 0
    /\ max_roads_output = 0

\* the state outside the pipeline
PipelineIdle ==
    /\ StagesIdle
    /\ impl = "none"

\* the width stage on its own: any list of roads of positive length, and the
\* explicit widths of at least as many raw segments
WidthInit ==
    /\ PipelineIdle
    /\ final_roads \in FinalRoadLists
    /\ road_widths \in WidthLists
    /\ Len(road_widths) >= Len(final_roads)
    /\ angle_tol \in AngleTols
    /\ ReportIdle
    /\ pc = "done"

\* Determine global avg width from explicit widths (if present)
WidthPrepare ==
    /\ pc = "done"
    /\ global_avg_width_units' = GlobalAverage(road_widths)
    /\ results' = <<>>
    /\ pc' = "report"
    /\ UNCHANGED <<mergeVars, clusterVars, filterVars, road_widths, angle_tol,
                   distVars, pool, poolIds, callerVars, extractVars>>

\* for i, road in enumerate(final_roads, 1): if global_avg_width_units > 0:
\*     w_units = global_avg_width_units
ReportExplicit ==
    /\ pc = "report"
    /\ Len(results) < Len(final_roads)
    /\ global_avg_width_units > 0
    /\ LET i == Len(results) + 1
       IN  results' = Append(results, Road(i, final_roads[i], global_avg_width_units))
    /\ UNCHANGED <<mergeVars, clusterVars, filterVars, road_widths, angle_tol,
                   global_avg_width_units, distVars, pool, poolIds, pc, callerVars, extractVars>>

\* Mutant of Candidates: the corridors before the length filter and the cut.
Candidates_Clustered(fr, cl) == cl
\* the all_roads argument of find_parallel_edge(r, final_roads, ...)
Candidates(fr, cl) == fr

\* else: _, w_units = find_parallel_edge(road, final_roads, PARALLEL_ANGLE_TOL)
\* (the road is found at its own position in the list of candidates)
ReportParallel ==
    /\ pc = "report"
    /\ Len(results) < Len(final_roads)
    /\ ~(global_avg_width_units > 0)
    /\ LET i == Len(results) + 1
           all_roads == Candidates(final_roads, clustered)
           t == CHOOSE k \in 1..Len(all_roads) : all_roads[k] = final_roads[i]
       IN  results' = Append(results,
               Road(i, final_roads[i], find_parallel_edge(t, all_roads, angle_tol)[2]))
    /\ UNCHANGED <<mergeVars, clusterVars, filterVars, road_widths, angle_tol,
                   global_avg_width_units, distVars, pool, poolIds, pc, callerVars, extractVars>>

\* the for loop ends: return results
ReportReturn ==
    /\ pc = "report"
    /\ Len(results) = Len(final_roads)
    /\ pc' = "reported"
    /\ UNCHANGED <<mergeVars, clusterVars, filterVars, reportVars, pool, poolIds>>

WidthNext ==
    \/ WidthPrepare
    \/ ReportExplicit
    \/ ReportParallel
    \/ ReportReturn

WidthSpec == WidthInit /\ [][WidthNext]_vars

\* --------------------------- the pipeline from the merger to the widths
\* a batch of raw segments, all without explicit width or all with the same
\* one, merged with a tolerance that joins coincident endpoints only
ReportInit ==
    /\ MergeEntry
    /\ tolerance = 1
    /\ \E w \in {0, 6000} : road_widths = [i \in 1..Len(polylines) |-> w]

ReportNext ==
    \/ PipelineNext
    \/ WidthNext

ReportSpec == ReportInit /\ [][ReportNext]_vars

\* ------------------------------ average_polyline_distance called on its own
DistInit ==
    /\ PipelineIdle
    /\ final_roads = <<>>
    /\ road_widths = <<>>
    /\ angle_tol = PARALLEL_ANGLE_TOL
    /\ global_avg_width_units = 0
    /\ results = <<>>
    /\ pl1 \in DistPolylines
    /\ pl2 \in DistPolylines
    /\ samples \in SampleCounts
    /\ dists = <<>>
    /\ avg_dist = 0
    /\ CallerIdle
    /\ ExtractIdle
    /\ pc = "dist"

\* if not pl1 or not pl2: return 0.0 / if tot_len <= 0: return 0.0
DistReturnZero ==
    /\ pc = "dist"
    /\ \/ pl1 = <<>>
       \/ pl2 = <<>>
       \/ polyline_length(pl1) <= 0
    /\ avg_dist' = average_polyline_distance(pl1, pl2, samples)
    /\ pc' = "dist_done"
    /\ UNCHANGED <<mergeVars, clusterVars, filterVars, widthVars, pl1, pl2,
                   samples, dists, pool, poolIds, callerVars, extractVars>>

\* the for loop over the samples and the mean of dists
DistSample ==
    /\ pc = "dist"
    /\ pl1 # <<>>
    /\ pl2 # <<>>
    /\ polyline_length(pl1) > 0
    /\ dists' = SampleDists(pl1, pl2, samples)
    /\ avg_dist' = average_polyline_distance(pl1, pl2, samples)
    /\ pc' = "dist_done"
    /\ UNCHANGED <<mergeVars, clusterVars, filterVars, widthVars, pl1, pl2,
                   samples, pool, poolIds, callerVars, extractVars>>

DistNext ==
    \/ DistReturnZero
    \/ DistSample

DistSpec == DistInit /\ [][DistNext]_vars

\* -------------------------- road_LW: merge_polylines and cluster_roads work
\* on the caller's list and on the caller's polyline objects
\* The ways a list can hold its polylines: ids[i] is the first position that
\* holds the list object of position i (the same value, then); the identity
\* when all positions hold objects of their own.
AliasMaps(pls) ==
    {ids \in [1..Len(pls) -> 1..Len(pls)] :
        \A i \in 1..Len(pls) :
            /\ ids[i] <= i
            /\ ids[ids[i]] = ids[i]
            /\ pls[ids[i]] = pls[i]}

\* a list of values after the object id (0: a new list, in no other place) got
\* the value new: every entry that is this object shows it
Rebound(vals, ids, id, new) ==
    [k \in 1..Len(vals) |-> IF id # 0 /\ ids[k] = id THEN new ELSE vals[k]]

\* road_LW.main: merged = merge_polylines(road_polylines, ...).  polylines
\* keeps the value of the list as it was passed.
InPlaceInit ==
    /\ polylines \in Batches
    /\ tolerance \in Tolerances
    /\ road_polylines = polylines
    /\ objects = polylines
    /\ poolIds \in AliasMaps(polylines)
    /\ current_obj = 0
    /\ mergedObjs = <<>>
    /\ base_obj = 0
    /\ clusteredObjs = <<>>
    /\ pool = <<>>
    /\ current = <<>>
    /\ currentParts = <<>>
    /\ merged = <<>>
    /\ mergedParts = <<>>
    /\ roads = <<>>
    /\ cluster_distance = 0
    /\ base = <<>>
    /\ baseIds = <<>>
    /\ clustered = <<>>
    /\ clusteredIds = <<>>
    /\ final_roads = <<>>
    /\ min_road_length = 0
    /\ max_roads_output = 0
    /\ impl = "road_LW"
    /\ road_widths = [i \in 1..Len(polylines) |-> 0]
    /\ angle_tol = PARALLEL_ANGLE_TOL
    /\ global_avg_width_units = 0
    /\ results = <<>>
    /\ pl1 = <<>>
    /\ pl2 = <<>>
    /\ samples = DefaultSamples
    /\ dists = <<>>
    /\ avg_dist = 0
    /\ ExtractIdle
    /\ pc = "lw_merge"

\* the variables the in-place run never touches
inPlaceFrame ==
    <<polylines, tolerance, pool, currentParts, mergedParts, baseIds,
      clusteredIds, filterVars, widthVars, distVars, extractVars>>

\* while polylines: current = polylines.pop()
InPlaceMergePop ==
    /\ pc = "lw_merge"
    /\ road_polylines # <<>>
    /\ current' = Last(road_polylines)
    /\ current_obj' = Last(poolIds)
    /\ road_polylines' = Front(road_polylines)
    /\ poolIds' = Front(poolIds)
    /\ pc' = "lw_merge_scan"
    /\ UNCHANGED <<inPlaceFrame, objects, merged, mergedObjs, base_obj,
                   clusteredObjs, roads, cluster_distance, base, clustered>>

\* current.extend(other[1:]) / current.extend(list(reversed(other))[1:]):
\* the list current is grows, an input object when current still is one, and
\* with it every entry of the caller's list and of merged that is this object;
\* polylines.pop(i)
InPlaceMergeExtend(kind) ==
    /\ pc = "lw_merge_scan"
    /\ LET i == FirstMatch(current, road_polylines, tolerance)
       IN  /\ i # 0
           /\ MatchCase(current, road_polylines[i], tolerance) = kind
           /\ LET new == Splice(kind, current, road_polylines[i])
              IN  /\ current' = new
                  /\ objects' = IF current_obj # 0
                                   THEN [objects EXCEPT ![current_obj] = new]
                                   ELSE objects
                  /\ road_polylines' =
                         RemoveAt(Rebound(road_polylines, poolIds, current_obj, new), i)
                  /\ merged' = Rebound(merged, mergedObjs, current_obj, new)
           /\ poolIds' = RemoveAt(poolIds, i)
    /\ UNCHANGED <<inPlaceFrame, current_obj, mergedObjs, base_obj,
                   clusteredObjs, roads, cluster_distance, base, clustered, pc>>

InPlaceMergeTailToHead == InPlaceMergeExtend("tail_to_head")
InPlaceMergeTailToTail == InPlaceMergeExtend("tail_to_tail")

\* current = other[:-1] + current / current = list(reversed(other))[:-1] +
\* current: current becomes a new list; polylines.pop(i)
InPlaceMergeRebind(kind) ==
    /\ pc = "lw_merge_scan"
    /\ LET i == FirstMatch(current, road_polylines, tolerance)
       IN  /\ i # 0
           /\ MatchCase(current, road_polylines[i], tolerance) = kind
           /\ current' = Splice(kind, current, road_polylines[i])
           /\ road_polylines' = RemoveAt(road_polylines, i)
           /\ poolIds' = RemoveAt(poolIds, i)
    /\ current_obj' = 0
    /\ UNCHANGED <<inPlaceFrame, objects, merged, mergedObjs, base_obj,
                   clusteredObjs, roads, cluster_distance, base, clustered, pc>>

InPlaceMergeHeadToTail == InPlaceMergeRebind("head_to_tail")
InPlaceMergeHeadToHead == InPlaceMergeRebind("head_to_head")

\* the for loop ends without a break: merged.append(current)
InPlaceMergeAppend ==
    /\ pc = "lw_merge_scan"
    /\ FirstMatch(current, road_polylines, tolerance) = 0
    /\ merged' = Append(merged, current)
    /\ mergedObjs' = Append(mergedObjs, current_obj)
    /\ pc' = "lw_merge"
    /\ UNCHANGED <<inPlaceFrame, road_polylines, poolIds, objects, current,
                   current_obj, base_obj, clusteredObjs, roads,
                   cluster_distance, base, clustered>>

\* while polylines: is false -- return merged
InPlaceMergeReturn ==
    /\ pc = "lw_merge"
    /\ road_polylines = <<>>
    /\ pc' = "lw_merged"
    /\ UNCHANGED <<inPlaceFrame, callerVars, poolIds, current, merged, roads,
                   cluster_distance, base, clustered>>

\* road_LW.main: clustered = cluster_roads(merged, ...).  roads keeps the value
\* of the list as it was passed.
InPlaceClusterCall ==
    /\ pc = "lw_merged"
    /\ roads' = merged
    /\ \E d \in ClusterDistances :
          /\ d >= tolerance
          /\ cluster_distance' = d
    /\ pc' = "lw_cluster"
    /\ UNCHANGED <<inPlaceFrame, callerVars, poolIds, current, merged, base,
                   clustered>>

\* while roads: base = roads.pop()
InPlaceClusterPop ==
    /\ pc = "lw_cluster"
    /\ merged # <<>>
    /\ base' = Last(merged)
    /\ base_obj' = Last(mergedObjs)
    /\ merged' = Front(merged)
    /\ mergedObjs' = Front(mergedObjs)
    /\ pc' = "lw_cluster_scan"
    /\ UNCHANGED <<inPlaceFrame, road_polylines, poolIds, objects, current,
                   current_obj, clusteredObjs, roads, cluster_distance,
                   clustered>>

\* The for loop over roads, from position i on, with base growing in place: an
\* entry that is the object base is has the value base has by then.
RECURSIVE InPlaceClusterFor(_, _, _, _, _, _, _)
InPlaceClusterFor(b, pl, ids, bobj, i, kill, d) ==
    IF i > Len(pl) THEN <<b, kill>>
    ELSE LET other == IF bobj # 0 /\ ids[i] = bobj THEN b ELSE pl[i]
         IN  IF CloseEnds(b, other, d)
             THEN InPlaceClusterFor(Absorb(b, other), pl, ids, bobj, i + 1,
                                    Append(kill, i), d)
             ELSE InPlaceClusterFor(b, pl, ids, bobj, i + 1, kill, d)

\* One pass of the for loop that absorbs: base += [...] grows the list base
\* is, an input object when base is one, and with it every entry of roads and
\* of clustered that is this object; roads.pop(index) for each absorbed.
InPlaceClusterAbsorb ==
    /\ pc = "lw_cluster_scan"
    /\ LET r == InPlaceClusterFor(base, merged, mergedObjs, base_obj, 1, <<>>,
                                  cluster_distance)
       IN  /\ r[2] # <<>>
           /\ base' = r[1]
           /\ objects' = IF base_obj # 0
                            THEN [objects EXCEPT ![base_obj] = r[1]]
                            ELSE objects
           /\ merged' = PopAll(Rebound(merged, mergedObjs, base_obj, r[1]), r[2])
           /\ mergedObjs' = PopAll(mergedObjs, r[2])
           /\ clustered' = Rebound(clustered, clusteredObjs, base_obj, r[1])
    /\ UNCHANGED <<inPlaceFrame, road_polylines, poolIds, current, current_obj,
                   base_obj, clusteredObjs, roads, cluster_distance, pc>>

\* One pass that absorbs nothing: clustered.append(base)
InPlaceClusterAppend ==
    /\ pc = "lw_cluster_scan"
    /\ InPlaceClusterFor(base, merged, mergedObjs, base_obj, 1, <<>>,
                         cluster_distance)[2] = <<>>
    /\ clustered' = Append(clustered, base)
    /\ clusteredObjs' = Append(clusteredObjs, base_obj)
    /\ pc' = "lw_cluster"
    /\ UNCHANGED <<inPlaceFrame, road_polylines, objects, current_obj,
                   mergedObjs, base_obj, poolIds, current, merged, roads,
                   cluster_distance, base>>

\* while roads: is false -- return clustered
InPlaceClusterReturn ==
    /\ pc = "lw_cluster"
    /\ merged = <<>>
    /\ pc' = "lw_clustered"
    /\ UNCHANGED <<inPlaceFrame, callerVars, poolIds, current, merged, roads,
                   cluster_distance, base, clustered>>

InPlaceNext ==
    \/ InPlaceMergePop
    \/ InPlaceMergeTailToHead
    \/ InPlaceMergeHeadToTail
    \/ InPlaceMergeHeadToHead
    \/ InPlaceMergeTailToTail
    \/ InPlaceMergeAppend
    \/ InPlaceMergeReturn
    \/ InPlaceClusterCall
    \/ InPlaceClusterPop
    \/ InPlaceClusterAbsorb
    \/ InPlaceClusterAppend
    \/ InPlaceClusterReturn

InPlaceSpec == InPlaceInit /\ [][InPlaceNext]_vars

\* ------------------------------------- extract_roads / extract_polylines
\* if polyline_length(pts) > 1.0 in create_map, > 10 in laldarwaja and road_LW
MinRawLength(im) == IF im = "create_map" THEN 100 ELSE 1000

\* Mutant of KeepsEntity: an entity of length exactly the threshold is kept.
KeepsEntity_NotStrict(im, e) == polyline_length(e.pts) >= MinRawLength(im)
\* Mutant of KeepsEntity: every entity of a road layer is kept.
KeepsEntity_Always(im, e) == TRUE
\* if polyline_length(pts) > 1.0:  # keep small; filter later
KeepsEntity(im, e) == polyline_length(e.pts) > MinRawLength(im)

\* avg_w = float(np.mean(vws)) if vws else 0.0
AvgWidth(e) == IF e.vws # <<>> THEN Mean(e.vws) ELSE 0

\* polylines = []; widths = []; the loop has not begun
ExtractInit ==
    /\ StagesIdle
    /\ impl \in Impls
    /\ final_roads = <<>>
    /\ entities \in EntityLists
    /\ entity_i = 0
    /\ returned = <<>>
    /\ road_widths = <<>>
    /\ angle_tol = PARALLEL_ANGLE_TOL
    /\ global_avg_width_units = 0
    /\ results = <<>>
    /\ pl1 = <<>>
    /\ pl2 = <<>>
    /\ samples = DefaultSamples
    /\ dists = <<>>
    /\ avg_dist = 0
    /\ CallerIdle
    /\ pc = "extract"

\* the variables extraction never touches
extractFrame ==
    <<tolerance, current, merged, currentParts, mergedParts, clusterVars,
      filterVars, angle_tol, global_avg_width_units, results, distVars,
      callerVars, pool, poolIds, entities, returned>>

\* the entity the loop is at
Entity == entities[entity_i + 1]

\* if e.dxf.layer in road_layers: is false
ExtractOtherLayer ==
    /\ pc = "extract"
    /\ entity_i < Len(entities)
    /\ ~Entity.malformed
    /\ ~Entity.road_layer
    /\ entity_i' = entity_i + 1
    /\ UNCHANGED <<extractFrame, polylines, road_widths, pc>>

\* polylines.append(pts); widths.append(avg_w)
ExtractKeep ==
    /\ pc = "extract"
    /\ entity_i < Len(entities)
    /\ ~Entity.malformed
    /\ Entity.road_layer
    /\ KeepsEntity(impl, Entity)
    /\ polylines' = Append(polylines, Entity.pts)
    /\ road_widths' = Append(road_widths, AvgWidth(Entity))
    /\ entity_i' = entity_i + 1
    /\ UNCHANGED <<extractFrame, pc>>

\* if polyline_length(pts) > 1.0: is false
ExtractSkip ==
    /\ pc = "extract"
    /\ entity_i < Len(entities)
    /\ ~Entity.malformed
    /\ Entity.road_layer
    /\ ~KeepsEntity(impl, Entity)
    /\ entity_i' = entity_i + 1
    /\ UNCHANGED <<extractFrame, polylines, road_widths, pc>>

\* except Exception: continue (create_map and laldarwaja)
ExtractMalformed ==
    /\ pc = "extract"
    /\ entity_i < Len(entities)
    /\ Entity.malformed
    /\ impl # "road_LW"
    /\ entity_i' = entity_i + 1
    /\ UNCHANGED <<extractFrame, polylines, road_widths, pc>>

\* road_LW has no try: the exception leaves extract_polylines
ExtractRaise ==
    /\ pc = "extract"
    /\ entity_i < Len(entities)
    /\ Entity.malformed
    /\ impl = "road_LW"
    /\ pc' = "raised"
    /\ UNCHANGED <<extractFrame, polylines, road_widths, entity_i>>

\* return polylines, widths
ExtractReturn ==
    /\ pc = "extract"
    /\ entity_i = Len(entities)
    /\ returned' = <<polylines, road_widths>>
    /\ pc' = "extracted"
    /\ UNCHANGED <<tolerance, current, merged, currentParts, mergedParts,
                   clusterVars, filterVars, widthVars, distVars, callerVars,
                   pool, poolIds, polylines, entities, entity_i>>

ExtractNext ==
    \/ ExtractOtherLayer
    \/ ExtractKeep
    \/ ExtractSkip
    \/ ExtractMalformed
    \/ ExtractRaise
    \/ ExtractReturn

ExtractSpec == ExtractInit /\ [][ExtractNext]_vars

\* ------------------------------------- merge_polylines as a pure function
\* the inner `while changed` loop: <<current, pool>> when it ends
RECURSIVE MergeGrow(_, _, _)
MergeGrow(cur, pl, tol) ==
    LET i == FirstMatch(cur, pl, tol)
    IN  IF i = 0 THEN <<cur, pl>>
        ELSE MergeGrow(Splice(MatchCase(cur, pl[i], tol), cur, pl[i]),
                       RemoveAt(pl, i), tol)

\* the outer `while pool` loop
RECURSIVE MergeLoop(_, _, _)
MergeLoop(pl, acc, tol) ==
    IF pl = <<>> THEN acc
    ELSE LET g == MergeGrow(Last(pl), Front(pl), tol)
         IN  MergeLoop(g[2], Append(acc, g[1]), tol)

merge_polylines(pls, tol) == MergeLoop(pls, <<>>, tol)

\* --------------------------------------- cluster_roads as a pure function
\* the inner `while changed` loop: <<base, pool>> when it ends
RECURSIVE ClusterGrow(_, _, _)
ClusterGrow(b, pl, d) ==
    LET r == ClusterFor(b, pl, 1, <<>>, d)
    IN  IF r[2] = <<>> THEN <<b, pl>>
        ELSE ClusterGrow(r[1], PopAll(pl, r[2]), d)

\* the outer `while pool` loop
RECURSIVE ClusterLoop(_, _, _)
ClusterLoop(pl, out, d) ==
    IF pl = <<>> THEN out
    ELSE LET g == ClusterGrow(Last(pl), Front(pl), d)
         IN  ClusterLoop(g[2], Append(out, g[1]), d)

cluster_roads(rs, d) == ClusterLoop(rs, <<>>, d)

\* The step-by-step run and the function agree on the result.
MergeRunIsFunction ==
    pc = "merged" => merged = merge_polylines(polylines, tolerance)

\* ------------------------------------------------------------- claims
EndPoints(pl) == {pl[1], Last(pl)}

\* C1: after merge_polylines returns, no two distinct returned polylines have
\* an endpoint pair (first or last point of one against first or last point of
\* the other) at distance < tolerance.
C1_NoCloseEndpoints ==
    pc = "merged" =>
        \A i, j \in 1..Len(merged) :
            i # j =>
                \A p \in EndPoints(merged[i]), q \in EndPoints(merged[j]) :
                    ~(dist(p, q) < tolerance)

\* C1 witness: a run with a stitch that returned two paths under a tolerance
\* that reaches neighbouring points.
C1_Witness ==
    /\ pc = "merged"
    /\ tolerance = 150
    /\ Len(merged) = 2
    /\ Len(polylines) = 3

\* C3: merge_polylines fully consumes its input.  At every step each input
\* fragment is in exactly one place (still in the pool, or taken once into the
\* accumulator or into a finished path, as a seed or as a stitched other), the
\* pool entries are the unmodified input fragments, and when the call returns
\* the pool is empty, every fragment is in exactly one returned path and there
\* are at most as many paths as fragments.
PartIds(parts) == [k \in 1..Len(parts) |-> parts[k][1]]

TakenIds ==
    (IF pc = "merge_scan" THEN PartIds(currentParts) ELSE <<>>)
        \o Flatten([k \in 1..Len(mergedParts) |-> PartIds(mergedParts[k])])

Occurrences(s, x) == Cardinality({k \in 1..Len(s) : s[k] = x})

C3_FullyConsumed ==
    pc \in {"merge", "merge_scan", "merged"} =>
    /\ \A id \in 1..Len(polylines) : Occurrences(poolIds \o TakenIds, id) = 1
    /\ Len(poolIds \o TakenIds) = Len(polylines)
    /\ Len(pool) = Len(poolIds)
    /\ \A k \in 1..Len(pool) : pool[k] = polylines[poolIds[k]]
    /\ Len(merged) = Len(mergedParts)
    /\ pc = "merged" =>
          /\ pool = <<>>
          /\ Len(merged) <= Len(polylines)
          /\ \A id \in 1..Len(polylines) :
                Cardinality({k \in 1..Len(merged) :
                    Occurrences(PartIds(mergedParts[k]), id) > 0}) = 1

\* C3 witness: three fragments were consumed into two paths.
C3_Witness ==
    /\ pc = "merged"
    /\ Len(polylines) = 3
    /\ Len(merged) = 2
    /\ pool = <<>>
    /\ \E k \in 1..2 : Len(mergedParts[k]) = 2

\* The points a fragment contributes to its path: all of them for the seed of
\* the accumulator, all but its matched endpoint for a stitched fragment, in
\* forward order or reversed.
PartPoints(part) ==
    LET pl == polylines[part[1]]
    IN  CASE part[2] = "seed"         -> pl
          [] part[2] = "tail_to_head" -> Tail(pl)
          [] part[2] = "head_to_tail" -> Front(pl)
          [] part[2] = "head_to_head" -> Reverse(Tail(pl))
          [] part[2] = "tail_to_tail" -> Reverse(Front(pl))

IsInfix(a, b) ==
    \E k \in 0..(Len(b) - Len(a)) : SubSeq(b, k + 1, k + Len(a)) = a

\* the returned path that holds input fragment id
PathOf(id) ==
    CHOOSE k \in 1..Len(merged) : Occurrences(PartIds(mergedParts[k]), id) > 0

\* C4 as stated: every point of every input polyline appears in the returned
\* polyline that holds its fragment, the fragment's points contiguous in forward
\* or reversed order (already for fragments of at least two points and of
\* non-zero length).
C4_Original ==
    (/\ pc = "merged"
     /\ \A id \in 1..Len(polylines) :
           Len(polylines[id]) >= 2 /\ polyline_length(polylines[id]) > 0) =>
        \A id \in 1..Len(polylines) :
            \/ IsInfix(polylines[id], merged[PathOf(id)])
            \/ IsInfix(Reverse(polylines[id]), merged[PathOf(id)])

\* C4 (amended): every returned polyline is the concatenation of the pieces of
\* the fragments stitched into it, each fragment in exactly one polyline; a piece
\* is the whole fragment for the seed and the fragment without its matched
\* endpoint for a stitched one, in forward or reversed order.
C4_PointsButMatchedEndpoint ==
    pc = "merged" =>
        /\ \A k \in 1..Len(merged) :
              merged[k] =
                  Flatten([n \in 1..Len(mergedParts[k]) |->
                              PartPoints(mergedParts[k][n])])
        /\ \A id \in 1..Len(polylines) :
              Cardinality({k \in 1..Len(merged) :
                  Occurrences(PartIds(mergedParts[k]), id) > 0}) = 1

\* C4 witness: a path stitched from three fragments, one of them reversed, under
\* a tolerance that joins endpoints that are close but not equal.
C4_Witness ==
    /\ pc = "merged"
    /\ tolerance = 150
    /\ \E k \in 1..Len(merged) :
          /\ Len(mergedParts[k]) = 3
          /\ \E n \in 1..3 : mergedParts[k][n][2] \in {"head_to_head", "tail_to_tail"}
          /\ Len(merged[k]) = 4

\* C5: merging is idempotent: merge_polylines applied to its own output with
\* the same tolerance performs no stitch and returns the same polylines.
C5_Idempotent ==
    pc = "merged" =>
        LET again == merge_polylines(merged, tolerance)
        IN  /\ Len(again) = Len(merged)
            /\ Range(again) = Range(merged)
            /\ \A pl \in Range(merged) :
                  Occurrences(again, pl) = Occurrences(merged, pl)

\* C5 witness: the first run stitched and returned two paths.
C5_Witness ==
    /\ pc = "merged"
    /\ tolerance > 0
    /\ Len(merged) = 2
    /\ Len(polylines) = 3
    /\ merged[1] # merged[2]

\* C6: the chain (0,0)-(1,0), (1,0)-(2,0), (2,0)-(3,0), in any order of the
\* fragments and any orientation of each, merged with tolerance 0.01, gives one
\* path with the four vertices in chain order (forward or reversed), of length 3.
Chain == << <<0, 0>>, <<100, 0>>, <<200, 0>>, <<300, 0>> >>

IsChainInput ==
    /\ Len(polylines) = 3
    /\ \A i \in 1..3 : Len(polylines[i]) = 2
    /\ {Range(polylines[i]) : i \in 1..3} =
           {{Chain[n], Chain[n + 1]} : n \in 1..3}

C6_ChainStitched ==
    (pc = "merged" /\ tolerance = 1 /\ IsChainInput) =>
        /\ Len(merged) = 1
        /\ merged[1] \in {Chain, Reverse(Chain)}
        /\ polyline_length(merged[1]) = 300

\* C6 witness: a chain given out of order, with a reversed fragment.
C6_Witness ==
    /\ pc = "merged"
    /\ tolerance = 1
    /\ IsChainInput
    /\ polylines[1] = << <<300, 0>>, <<200, 0>> >>
    /\ polylines[3] = << <<100, 0>>, <<200, 0>> >>
    /\ Len(merged) = 1

\* C2: after cluster_roads returns, no two distinct returned corridors have an
\* endpoint pair (first or last point of one against first or last point of the
\* other) at distance < cluster_distance.
C2_NoCloseCorridorEnds ==
    pc = "clustered" =>
        \A i, j \in 1..Len(clustered) :
            i # j =>
                \A p \in EndPoints(clustered[i]), q \in EndPoints(clustered[j]) :
                    ~(dist(p, q) < cluster_distance)

\* C7: cluster_roads fully partitions its input.  At every step each input path
\* is in exactly one place (still in the pool, or folded once into the
\* accumulator or into a finished corridor), the pool entries are the unmodified
\* input paths, the accumulator and every finished corridor contain every point
\* of every path folded into them, and when the call returns the pool is empty,
\* every path is in exactly one corridor and there are at most as many corridors
\* as paths.
FoldedIds ==
    (IF pc = "cluster_scan" THEN baseIds ELSE <<>>) \o Flatten(clusteredIds)

C7_FullyPartitioned ==
    pc \in {"cluster", "cluster_scan", "clustered"} =>
    /\ \A id \in 1..Len(roads) : Occurrences(poolIds \o FoldedIds, id) = 1
    /\ Len(poolIds \o FoldedIds) = Len(roads)
    /\ Len(pool) = Len(poolIds)
    /\ \A k \in 1..Len(pool) : pool[k] = roads[poolIds[k]]
    /\ Len(clustered) = Len(clusteredIds)
    /\ \A k \in 1..Len(clustered) :
          \A id \in Range(clusteredIds[k]) : Range(roads[id]) \subseteq Range(clustered[k])
    /\ pc = "cluster_scan" =>
          \A id \in Range(baseIds) : Range(roads[id]) \subseteq Range(base)
    /\ pc = "clustered" =>
          /\ pool = <<>>
          /\ Len(clustered) <= Len(roads)
          /\ \A id \in 1..Len(roads) :
                Cardinality({k \in 1..Len(clustered) :
                    id \in Range(clusteredIds[k])}) = 1

\* C7 witness: three paths were folded into two corridors, one of them from a
\* seed and a candidate that brought a new point.
C7_Witness ==
    /\ pc = "clustered"
    /\ Len(roads) = 3
    /\ Len(clustered) = 2
    /\ \E k \in 1..2 :
          /\ Len(clusteredIds[k]) = 2
          /\ Len(clustered[k]) > Len(roads[clusteredIds[k][1]])

\* a path no vertex of which is within cluster_distance of a vertex of another
\* input path
Isolated(id) ==
    \A j \in 1..Len(roads) :
        j # id =>
            \A p \in Range(roads[id]), q \in Range(roads[j]) :
                ~(dist(p, q) < cluster_distance)

\* a path neither endpoint of which is within cluster_distance of an endpoint
\* of another input path
IsolatedEnds(id) ==
    \A j \in 1..Len(roads) :
        j # id =>
            \A p \in EndPoints(roads[id]), q \in EndPoints(roads[j]) :
                ~(dist(p, q) < cluster_distance)

\* C8: a path that has no other input path within cluster_distance (no vertex
\* of another path is within cluster_distance of one of its vertices) is
\* returned as its own corridor with exactly its original point sequence.
C8_Isolation ==
    pc = "clustered" =>
        \A id \in 1..Len(roads) :
            Isolated(id) =>
                \E k \in 1..Len(clustered) :
                    /\ clusteredIds[k] = <<id>>
                    /\ clustered[k] = roads[id]

\* The same with the endpoints only: no endpoint of another path within
\* cluster_distance of an endpoint of the path.
C8_IsolationEndsOnly ==
    pc = "clustered" =>
        \A id \in 1..Len(roads) :
            IsolatedEnds(id) =>
                \E k \in 1..Len(clustered) :
                    /\ clusteredIds[k] = <<id>>
                    /\ clustered[k] = roads[id]

\* C8 witness: the isolated path is the first of three, and the other two
\* were clustered into one corridor.
C8_Witness ==
    /\ pc = "clustered"
    /\ Len(roads) = 3
    /\ Isolated(1)
    /\ Len(roads[1]) = 2
    /\ Len(clustered) = 2
    /\ clustered[2] = roads[1]
    /\ clusteredIds[1] = <<3, 2>>

\* C9: every emitted road has length >= min_road_length and at most
\* max_roads_output roads are emitted.
C9_FilterCorrect ==
    pc = "done" =>
        /\ \A k \in 1..Len(final_roads) :
              polyline_length(final_roads[k]) >= min_road_length
        /\ Len(final_roads) <= max_roads_output

\* C9 witness: a corridor was too short, more corridors passed than fit, and
\* the output is full.
C9_Witness ==
    /\ pc = "done"
    /\ \E k \in 1..Len(clustered) : polyline_length(clustered[k]) < min_road_length
    /\ Cardinality({k \in 1..Len(clustered) :
           polyline_length(clustered[k]) > min_road_length}) > max_roads_output
    /\ Len(final_roads) = max_roads_output

\* the positions in clustered of the corridors that pass the length filter
PassIdx == {i \in 1..Len(clustered) : Passes(impl, clustered[i], min_road_length)}

\* the position of the j-th corridor that passes
NthPassing(j) ==
    CHOOSE i \in PassIdx : Cardinality({n \in PassIdx : n <= i}) = j

\* C10: the emitted roads are the first max_roads_output corridors, in
\* clusterer output order, among those that pass the length filter: there are
\* min(max_roads_output, number of passing corridors) of them and the j-th
\* emitted road is the j-th passing corridor.
C10_FilterThenCut ==
    pc = "done" =>
        /\ Len(final_roads) =
              (IF max_roads_output < Cardinality(PassIdx)
                  THEN max_roads_output ELSE Cardinality(PassIdx))
        /\ \A j \in 1..Len(final_roads) : final_roads[j] = clustered[NthPassing(j)]

\* C10 witness: the first corridor is too short, two later ones pass, one
\* slot: the slot goes to the second corridor.
C10_Witness ==
    /\ pc = "done"
    /\ Len(clustered) = 3
    /\ PassIdx = {2, 3}
    /\ max_roads_output = 1
    /\ final_roads = <<clustered[2]>>
    /\ clustered[2] # clustered[3]

\* C11: explicit-width policy.  Whenever at least one raw segment of the batch
\* carries a non-zero explicit width, every emitted road is given the same
\* width, the average of all non-zero explicit widths of the batch (the width
\* times their number is their sum), whatever the geometric estimate would be;
\* only when no segment carries a non-zero explicit width is the width of a
\* road the parallel-edge estimate.  Every emitted road gets a record.
NonZeroWidths == {k \in 1..Len(road_widths) : road_widths[k] # 0}

C11_ExplicitWidthPolicy ==
    pc \in {"report", "reported"} =>
        /\ \A i \in 1..Len(results) :
              /\ results[i].points = final_roads[i]
              /\ IF NonZeroWidths # {}
                    THEN results[i].width_units * Cardinality(NonZeroWidths) =
                             SumSeq(road_widths)
                    ELSE results[i].width_units =
                             find_parallel_edge(i, final_roads, angle_tol)[2]
        /\ pc = "reported" => Len(results) = Len(final_roads)

\* C11 witness: segments with widths 6, 12 and none; two roads were both given
\* 9 although the parallel-edge estimate of the first is 5.
C11_Witness ==
    /\ pc = "reported"
    /\ Range(road_widths) = {0, 6000, 12000}
    /\ Len(road_widths) = 3
    /\ Len(final_roads) = 2
    /\ \A i \in 1..2 : results[i].width_units = 9000
    /\ find_parallel_edge(1, final_roads, angle_tol)[2] = 5000

\* the average sampled distance from road t to road k of final_roads
RoadDistance(t, k) ==
    average_polyline_distance(final_roads[t], final_roads[k], DefaultSamples)

\* the first-to-last bearing of road k of final_roads
RoadBearing(k) == bearing(final_roads[k][1], Last(final_roads[k]))

\* the other roads within the angle tolerance (inclusive) of road t, at a
\* strictly positive average distance
ParallelCandidates(t) ==
    {k \in 1..Len(final_roads) \ {t} :
        /\ angle_difference(RoadBearing(t), RoadBearing(k)) <= angle_tol
        /\ RoadDistance(t, k) > 0}

\* C12: geometric width selection.  For every road t of a list without
\* explicit widths,
\* find_parallel_edge returns the minimum strictly positive average sampled
\* distance over the other roads whose first-to-last bearing differs from t's by
\* at most the angle tolerance (inclusive), with the first road in list order
\* that attains it; a candidate at distance 0 and t itself are never selected;
\* without such a road it returns no road and 0.  The width recorded for a road
\* without explicit widths is that minimum.
C12_NearestParallel ==
    (pc = "reported" /\ NonZeroWidths = {}) =>
        \A t \in 1..Len(final_roads) :
            LET res == find_parallel_edge(t, final_roads, angle_tol)
                cands == ParallelCandidates(t)
            IN  /\ IF cands = {}
                      THEN res = <<0, 0>>
                      ELSE /\ res[1] \in cands
                           /\ res[2] = RoadDistance(t, res[1])
                           /\ \A k \in cands : res[2] <= RoadDistance(t, k)
                           /\ \A k \in cands :
                                 RoadDistance(t, k) = res[2] => res[1] <= k
                /\ results[t].width_units = res[2]

\* C12 witness: under the default tolerance the first road has two candidates
\* at the same distance and the first of them was selected; for the second
\* road the third, at distance 0, was left out.
C12_Witness ==
    /\ pc = "reported"
    /\ NonZeroWidths = {}
    /\ angle_tol = PARALLEL_ANGLE_TOL
    /\ Len(final_roads) = 3
    /\ ParallelCandidates(1) = {2, 3}
    /\ RoadDistance(1, 2) = RoadDistance(1, 3)
    /\ find_parallel_edge(1, final_roads, angle_tol)[1] = 2
    /\ results[1].width_units = RoadDistance(1, 2)
    /\ final_roads[2] # final_roads[3]
    /\ ParallelCandidates(2) = {1}
    /\ RoadDistance(2, 3) = 0

\* The point at arc length num / n along polyline a, on segment j or a later
\* one; cum is the length before segment j.  A coordinate that is not a whole
\* number of hundredths is rounded down.
RECURSIVE PointAt(_, _, _, _, _)
PointAt(a, num, n, j, cum) ==
    LET seg == dist(a[j], a[j + 1])
    IN  IF j < Len(a) - 1 /\ (cum + seg) * n < num
           THEN PointAt(a, num, n, j + 1, cum + seg)
        ELSE IF seg = 0 THEN a[j]
        ELSE LET off == num - cum * n
             IN  <<a[j][1] + ((a[j + 1][1] - a[j][1]) * off) \div (seg * n),
                   a[j][2] + ((a[j + 1][2] - a[j][2]) * off) \div (seg * n)>>

\* station k of n on polyline a: the point at arc length k * L / n
Station(a, k, n) == PointAt(a, k * polyline_length(a), n, 1, 0)

\* C13: width sampling.  average_polyline_distance evaluates the target at N
\* equally spaced arc-length stations (station k at arc length k * L / N along
\* the target), takes for each station the minimum distance to any vertex of the
\* candidate, and returns the mean of these N minima.
C13_StationSampling ==
    (pc = "dist_done" /\ pl1 # <<>> /\ pl2 # <<>> /\ polyline_length(pl1) > 0) =>
        /\ dists = [k \in 1..samples |-> MinDist(Station(pl1, k, samples), pl2)]
        /\ avg_dist = Mean([k \in 1..samples |-> 10 * dists[k]])

\* What the loop does evaluate, in exact arithmetic: for each k the first vertex
\* of the target at or beyond arc length k * L / N.
VertexAtOrBeyond(a, k, n) ==
    LET cum(j) == polyline_length(SubSeq(a, 1, j))
        js == {j \in 1..Len(a) : cum(j) * n >= k * polyline_length(a)}
    IN  a[CHOOSE j \in js : \A i \in js : j <= i]

C13_VertexSampling ==
    (pc = "dist_done" /\ pl1 # <<>> /\ pl2 # <<>> /\ polyline_length(pl1) > 0) =>
        /\ dists = [k \in 1..samples |->
                       MinDist(VertexAtOrBeyond(pl1, k, samples), pl2)]
        /\ avg_dist = Mean([k \in 1..samples |-> 10 * dists[k]])

\* two two-point roads, the second the first moved by a non-zero vector at a
\* right angle to it: parallel, of equal extent, in the same direction
IsParallelPair ==
    /\ Len(final_roads) = 2
    /\ Len(final_roads[1]) = 2
    /\ Len(final_roads[2]) = 2
    /\ LET a == final_roads[1][1]
           b == final_roads[1][2]
           c == final_roads[2][1]
           d == final_roads[2][2]
       IN  /\ c # a
           /\ <<d[1] - b[1], d[2] - b[2]>> = <<c[1] - a[1], c[2] - a[2]>>
           /\ (c[1] - a[1]) * (b[1] - a[1]) + (c[2] - a[2]) * (b[2] - a[2]) = 0

\* C14: parallel width accuracy.  Without explicit widths, two parallel
\* two-point roads of equal extent and the same direction at separation d > 0
\* are each given width d; the roads (0,0)-(10,0) and (0,5)-(10,5) are each
\* given width 5.
C14_ParallelWidth ==
    (pc = "reported" /\ NonZeroWidths = {} /\ IsParallelPair) =>
        \A i \in 1..2 :
            results[i].width_units = 10 * dist(final_roads[1][1], final_roads[2][1])

\* C14 witness: the roads (0,0)-(10,0) and (0,5)-(10,5) were each given 5.
C14_Witness ==
    /\ pc = "reported"
    /\ NonZeroWidths = {}
    /\ final_roads = << << <<0, 0>>, <<1000, 0>> >>, << <<0, 500>>, <<1000, 500>> >> >>
    /\ IsParallelPair
    /\ results[1].width_units = 5000
    /\ results[2].width_units = 5000

\* the fields of the record of a road
RoadFields == {"index", "start", "end", "length_units", "width_units", "points"}

C15_OnlyRoad ==
    /\ pc = "reported"
    /\ NonZeroWidths = {}
    /\ Len(final_roads) = 1
    /\ results[1].width_units = 0

\* the position in clustered of emitted road i (corridors are pairwise
\* different lists in the runs of the witness)
CorridorOf(i) == CHOOSE k \in 1..Len(clustered) : clustered[k] = final_roads[i]

\* C16: the width of each emitted road is estimated against the final road set
\* only.  Without an explicit width, every recorded width is the parallel-edge estimate of the road among
\* the roads that survived the length filter and the cut (0 when none of them
\* qualifies), whatever the corridors that were filtered out or cut away.
C16_FinalRoadsOnly ==
    (pc \in {"report", "reported"} /\ global_avg_width_units = 0) =>
        \A i \in 1..Len(results) :
            LET res == find_parallel_edge(i, final_roads, angle_tol)
            IN  /\ results[i].points = final_roads[i]
                /\ results[i].width_units = res[2]
                /\ res[1] \in 0..Len(final_roads)
                /\ res[1] # 0 => res[2] = RoadDistance(i, res[1])

\* C16 witness: a corridor of positive length was too short and dropped; it is
\* parallel to the emitted road and at a distance > 0 from it, and the emitted
\* road was given width 0.
C16_Witness ==
    /\ pc = "reported"
    /\ Len(clustered) = 2
    /\ Len(final_roads) = 1
    /\ \E k \in 1..2 :
          /\ polyline_length(clustered[k]) > 0
          /\ polyline_length(clustered[k]) < min_road_length
    /\ results[1].width_units = 0
    /\ find_parallel_edge(CorridorOf(1), clustered, angle_tol)[2] > 0

\* C16 witness of the cut: both corridors pass the length filter, the second
\* was cut away, and the emitted road was given width 0 although the second is
\* parallel to it at a distance > 0.
C16_CutAway ==
    /\ pc = "reported"
    /\ Len(clustered) = 2
    /\ \A k \in 1..2 : polyline_length(clustered[k]) > min_road_length
    /\ final_roads = <<clustered[1]>>
    /\ results[1].width_units = 0
    /\ find_parallel_edge(1, clustered, angle_tol)[2] > 0

\* C17: the input batch is immutable and invocations are stateless.  When the
\* merger of road_LW returns, the list the caller passed and every input
\* polyline are as they were passed, and a second call with the same list
\* returns the same result; when its clusterer returns, the list the caller
\* passed (merged) and every input polyline are as they were.
C17_InputUnchanged ==
    /\ pc = "lw_merged" =>
          /\ road_polylines = polylines
          /\ objects = polylines
          /\ merge_polylines(road_polylines, tolerance) = merged
    /\ pc = "lw_clustered" =>
          /\ merged = roads
          /\ objects = polylines

\* the same, for the input polylines alone
C17_PolylinesUnchanged ==
    pc \in {"lw_merged", "lw_clustered"} => objects = polylines


\* an entry with fewer than 2 points, or of zero length
Degenerate(e) ==
    /\ ~e.malformed
    /\ e.road_layer
    /\ (Len(e.pts) < 2 \/ polyline_length(e.pts) = 0)

\* the positions of the entries extraction is expected to keep, in order
RECURSIVE KeptFrom(_, _, _)
KeptFrom(es, im, i) ==
    IF i > Len(es) THEN <<>>
    ELSE IF /\ ~es[i].malformed
            /\ es[i].road_layer
            /\ polyline_length(es[i].pts) > MinRawLength(im)
         THEN <<i>> \o KeptFrom(es, im, i + 1)
         ELSE KeptFrom(es, im, i + 1)

\* C18 as stated: degenerate entries are skipped one by one without aborting
\* the batch, none reaches the merger, the remaining entries are processed
\* normally, and a running count of skipped entries is returned to the caller.
C18_Original ==
    pc = "extracted" =>
        /\ \A k \in 1..Len(returned[1]) :
              Len(returned[1][k]) >= 2 /\ polyline_length(returned[1][k]) > 0
        /\ Len(returned) >= 3
        /\ returned[3] = Cardinality({i \in 1..Len(entities) :
                                        Degenerate(entities[i])})

\* C18 amended: degenerate entries (fewer than 2 points, or zero length) are
\* skipped one by one without aborting the batch: a degenerate entry never
\* makes extraction raise, none of them is among the polylines handed to the
\* merger, the remaining entries are kept or dropped by the length threshold
\* in their order with their widths, and extraction returns the polylines and
\* their widths only: no count of skipped entries is kept or returned.
C18_DegenerateSkipped ==
    /\ pc = "raised" => Entity.malformed
    /\ pc = "extracted" =>
          LET kept == KeptFrom(entities, impl, 1) IN
          /\ Len(returned) = 2
          /\ returned[1] = [k \in 1..Len(kept) |-> entities[kept[k]].pts]
          /\ returned[2] = [k \in 1..Len(kept) |-> AvgWidth(entities[kept[k]])]
          /\ \A k \in 1..Len(returned[1]) :
                /\ Len(returned[1][k]) >= 2
                /\ polyline_length(returned[1][k]) > 0
                /\ ~\E i \in 1..Len(entities) :
                      Degenerate(entities[i]) /\ kept[k] = i

\* road_LW has skipped a one-point entry, then kept the entry after it with
\* its width
C18_Witness ==
    /\ pc = "extracted"
    /\ impl = "road_LW"
    /\ Len(entities) = 2
    /\ Degenerate(entities[1])
    /\ Len(entities[1].pts) = 1
    /\ returned[1] = <<entities[2].pts>>
    /\ returned[2] = <<6000>>

\* create_map has skipped a two-point entry of zero length and the batch went on
C18_ZeroLength ==
    /\ pc = "extracted"
    /\ impl = "create_map"
    /\ Len(entities) = 2
    /\ Len(entities[1].pts) = 2
    /\ Degenerate(entities[1])
    /\ Len(returned[1]) = 1


\* the input fragment id is a single point
SinglePoint(id) == Len(polylines[id]) = 1

\* fragment id is the only fragment of its returned path, which is the fragment
OwnPath(id) ==
    \E k \in 1..Len(merged) :
        /\ mergedParts[k] = << <<id, "seed">> >>
        /\ merged[k] = polylines[id]

\* fragment id is not in the accumulator or a finished path with another one
NeverJoined(id) ==
    /\ pc = "merge_scan" =>
          (Occurrences(PartIds(currentParts), id) > 0 => Len(currentParts) = 1)
    /\ \A k \in 1..Len(mergedParts) :
          Occurrences(PartIds(mergedParts[k]), id) > 0 => Len(mergedParts[k]) = 1

\* C19 as stated: a single-point polyline is never stitched to or absorbed by
\* another polyline, whatever the tolerance and whatever lies near it, and it
\* appears in the output as its own one-point path.
C19_Original ==
    pc \in {"merge", "merge_scan", "merged"} =>
        \A id \in 1..Len(polylines) :
            SinglePoint(id) =>
                /\ NeverJoined(id)
                /\ pc = "merged" => OwnPath(id)

\* no endpoint of another input fragment is strictly within the tolerance of
\* the point of the single-point fragment id
NoEndpointNear(id) ==
    \A j \in 1..Len(polylines) :
        j # id =>
            /\ ~(dist(polylines[id][1], polylines[j][1]) < tolerance)
            /\ ~(dist(polylines[id][1], Last(polylines[j])) < tolerance)

\* C19 amended: a single-point polyline that reaches merge_polylines with no
\* endpoint of another input polyline strictly within the tolerance of it (at
\* tolerance 0: always) is never stitched to or absorbed by another polyline
\* and appears in the output as its own one-point path.
C19_SinglePointApart ==
    pc \in {"merge", "merge_scan", "merged"} =>
        \A id \in 1..Len(polylines) :
            (SinglePoint(id) /\ NoEndpointNear(id)) =>
                /\ NeverJoined(id)
                /\ pc = "merged" => OwnPath(id)

\* two fragments were stitched under a tolerance that joins endpoints 1 apart,
\* and the single point 2 away from the nearest endpoint came out on its own
C19_Witness ==
    /\ pc = "merged"
    /\ tolerance = 150
    /\ Len(polylines) = 3
    /\ Len(merged) = 2
    /\ \E id \in 1..3 :
          /\ SinglePoint(id)
          /\ NoEndpointNear(id)
          /\ OwnPath(id)
          /\ \E j \in 1..3 : dist(polylines[id][1], Last(polylines[j])) = 200

\* at tolerance 0 a single point on the endpoint of another fragment came out
\* on its own
C19_ZeroTolerance ==
    /\ pc = "merged"
    /\ tolerance = 0
    /\ \E id \in 1..Len(polylines) :
          /\ SinglePoint(id)
          /\ OwnPath(id)
          /\ \E j \in 1..Len(polylines) :
                j # id /\ Len(polylines[j]) = 2 /\ polylines[j][1] = polylines[id][1]

\* a single point on the endpoint of another fragment was absorbed and left no
\* point of its own in the output
C19_Absorbed ==
    /\ pc = "merged"
    /\ tolerance = 1
    /\ Len(polylines) = 2
    /\ SinglePoint(1)
    /\ Len(polylines[2]) = 2
    /\ Len(merged) = 1
    /\ merged[1] = polylines[2]


\* the sum of the lengths of a list of polylines
TotalLength(pls) == SumSeq([k \in 1..Len(pls) |-> polyline_length(pls[k])])

\* C20: length conservation.  For tolerance 0 the total length of the merged
\* paths returned by merge_polylines equals the sum of the lengths of the input
\* fragments (for non-overlapping fragments as for any others: no endpoint is
\* at a distance below 0, so every fragment is returned as it came).
C20_LengthConserved ==
    (pc = "merged" /\ tolerance = 0) =>
        TotalLength(merged) = TotalLength(polylines)

\* three fragments laid end to end, sharing only their endpoints, were merged
\* at tolerance 0
C20_Witness ==
    /\ pc = "merged"
    /\ tolerance = 0
    /\ polylines = << <<(<<0, 0>>), (<<100, 0>>)>>,
                      <<(<<100, 0>>), (<<200, 0>>)>>,
                      <<(<<200, 0>>), (<<400, 0>>)>> >>
    /\ TotalLength(polylines) = 400
    /\ TotalLength(merged) = 400


\* one of the four endpoint pairs of a and b is at a distance below tol
EndpointsWithin(a, b, tol) ==
    \/ dist(Last(a), b[1]) < tol
    \/ dist(a[1], Last(b)) < tol
    \/ dist(a[1], b[1]) < tol
    \/ dist(Last(a), Last(b)) < tol

\* one of the four endpoint pairs of a and b is at distance d exactly
EndpointsAt(a, b, d) ==
    \/ dist(Last(a), b[1]) = d
    \/ dist(a[1], Last(b)) = d
    \/ dist(a[1], b[1]) = d
    \/ dist(Last(a), Last(b)) = d

\* this step stitches a pool entry into the accumulator
IsStitch ==
    /\ pc = "merge_scan"
    /\ pc' = "merge_scan"
    /\ Len(currentParts') = Len(currentParts) + 1

\* C21: coincidence is a strict threshold.  A step of the merger stitches a
\* pool entry into the accumulator only if one of the four endpoint pairs of the
\* two is at a distance strictly below merge_tolerance: a pair at exactly
\* merge_tolerance does not count, and with merge_tolerance = 0 no stitch ever
\* happens, even between equal endpoints.
C21_StrictThreshold ==
    [][IsStitch =>
          /\ tolerance > 0
          /\ \E i \in 1..Len(pool) :
                /\ pool' = RemoveAt(pool, i)
                /\ poolIds' = RemoveAt(poolIds, i)
                /\ EndpointsWithin(current, pool[i], tolerance)]_vars

\* two fragments with endpoints at exactly the tolerance of 1 unit, and none
\* nearer, came out as two paths
C21_Witness ==
    /\ pc = "merged"
    /\ tolerance = 100
    /\ Len(polylines) = 2
    /\ \A id \in 1..2 : Len(polylines[id]) = 2
    /\ EndpointsAt(polylines[1], polylines[2], 100)
    /\ ~EndpointsWithin(polylines[1], polylines[2], 100)
    /\ Len(merged) = 2
    /\ \A k \in 1..2 : Len(mergedParts[k]) = 1

\* at tolerance 0 two fragments with an equal endpoint came out as two paths
C21_EqualEndpoints ==
    /\ pc = "merged"
    /\ tolerance = 0
    /\ Len(polylines) = 2
    /\ EndpointsAt(polylines[1], polylines[2], 0)
    /\ merged = <<polylines[2], polylines[1]>>

\* at the tolerance of 1 unit two fragments with an equal endpoint were stitched
C21_Stitched ==
    /\ pc = "merged"
    /\ tolerance = 100
    /\ Len(polylines) = 2
    /\ EndpointsAt(polylines[1], polylines[2], 0)
    /\ Len(merged) = 1


\* the endpoint pair of case kind is strictly within the tolerance
Matched(kind, cur, o, tol) ==
    CASE kind = "tail_to_head" -> dist(Last(cur), o[1]) < tol
      [] kind = "head_to_tail" -> dist(cur[1], Last(o)) < tol
      [] kind = "head_to_head" -> dist(cur[1], o[1]) < tol
      [] kind = "tail_to_tail" -> dist(Last(cur), Last(o)) < tol

\* the accumulator the claim prescribes for case kind, point by point
Spliced(kind, cur, o) ==
    LET n == Len(cur)
        m == Len(o)
    IN  CASE kind = "tail_to_head" ->
                [k \in 1..(n + m - 1) |-> IF k <= n THEN cur[k] ELSE o[k - n + 1]]
          [] kind = "head_to_tail" ->
                [k \in 1..(n + m - 1) |-> IF k <= m - 1 THEN o[k] ELSE cur[k - m + 1]]
          [] kind = "head_to_head" ->
                [k \in 1..(n + m - 1) |->
                    IF k <= m - 1 THEN o[m + 1 - k] ELSE cur[k - m + 1]]
          [] kind = "tail_to_tail" ->
                [k \in 1..(n + m - 1) |-> IF k <= n THEN cur[k] ELSE o[m - (k - n)]]

\* the unmatched endpoint of cur stays an endpoint and the far endpoint of o
\* becomes the new endpoint
EndpointsAfter(kind, cur, o, new) ==
    CASE kind = "tail_to_head" -> new[1] = cur[1] /\ Last(new) = Last(o)
      [] kind = "head_to_tail" -> new[1] = o[1] /\ Last(new) = Last(cur)
      [] kind = "head_to_head" -> new[1] = Last(o) /\ Last(new) = Last(cur)
      [] kind = "tail_to_tail" -> new[1] = cur[1] /\ Last(new) = o[1]

SpliceKinds == {"tail_to_head", "head_to_tail", "head_to_head", "tail_to_tail"}

\* C22: splice correctness of the four cases.  Every step that stitches a pool
\* entry o of at least 2 points into the accumulator cur removes o from the pool
\* and leaves, for a case whose endpoint pair matched, cur followed by o without
\* its first point (tail-to-head), o without its last point followed by cur
\* (head-to-tail), reversed o without its last element followed by cur
\* (head-to-head) or cur followed by reversed o without its first element
\* (tail-to-tail): exactly one point of o is dropped, the unmatched endpoint of
\* cur stays an endpoint and the far endpoint of o becomes the new endpoint.
C22_SpliceCorrect ==
    [][IsStitch =>
          \E i \in 1..Len(pool) :
              /\ pool' = RemoveAt(pool, i)
              /\ poolIds' = RemoveAt(poolIds, i)
              /\ currentParts' \in {currentParts \o << <<poolIds[i], kd>> >> : kd \in SpliceKinds}
                                  \cup {<< <<poolIds[i], kd>> >> \o currentParts : kd \in SpliceKinds}
              /\ Len(pool[i]) >= 2 =>
                    \E kind \in SpliceKinds :
                        /\ Matched(kind, current, pool[i], tolerance)
                        /\ current' = Spliced(kind, current, pool[i])
                        /\ Len(current') = Len(current) + Len(pool[i]) - 1
                        /\ EndpointsAfter(kind, current, pool[i], current')]_vars

\* a path of four points was stitched from three two-point fragments, one
\* prepended reversed and one appended reversed
C22_Witness ==
    /\ pc = "merged"
    /\ pool = <<>>
    /\ Len(polylines) = 3
    /\ \A id \in 1..3 : Len(polylines[id]) = 2 /\ polyline_length(polylines[id]) > 0
    /\ Len(merged) = 1
    /\ Len(merged[1]) = 4
    /\ {mergedParts[1][n][2] : n \in 1..3} = {"seed", "head_to_head", "tail_to_tail"}

\* a path of four points was stitched from three two-point fragments, one
\* appended and one prepended, both in their own direction
C22_Forward ==
    /\ pc = "merged"
    /\ Len(polylines) = 3
    /\ \A id \in 1..3 : Len(polylines[id]) = 2 /\ polyline_length(polylines[id]) > 0
    /\ Len(merged) = 1
    /\ Len(merged[1]) = 4
    /\ {mergedParts[1][n][2] : n \in 1..3} = {"seed", "tail_to_head", "head_to_tail"}


\* the endpoint of fragment id that is not J
FarEnd(id, J) ==
    IF polylines[id][1] = J THEN Last(polylines[id]) ELSE polylines[id][1]

\* three fragments meet at the common endpoint J; their other endpoints are
\* pairwise farther apart than the tolerance and farther than the tolerance
\* from J
MeetAt(J) ==
    /\ Len(polylines) = 3
    /\ \A id \in 1..3 :
          /\ Len(polylines[id]) >= 2
          /\ polylines[id][1] = J \/ Last(polylines[id]) = J
          /\ dist(FarEnd(id, J), J) > tolerance
    /\ \A i, j \in 1..3 :
          i # j => dist(FarEnd(i, J), FarEnd(j, J)) > tolerance

\* two paths: the last and the first input fragment joined through J, and the
\* second input fragment unchanged
TwoPathsThrough(J) ==
    /\ Len(merged) = 2
    /\ {mergedParts[1][n][1] : n \in 1..Len(mergedParts[1])} = {1, 3}
    /\ Len(merged[1]) = Len(polylines[1]) + Len(polylines[3]) - 1
    /\ {merged[1][1], Last(merged[1])} = {FarEnd(1, J), FarEnd(3, J)}
    /\ \E k \in 2..(Len(merged[1]) - 1) : merged[1][k] = J
    /\ mergedParts[2] = << <<2, "seed">> >>
    /\ merged[2] = polylines[2]

\* C23 as stated: when three fragments meet at one common endpoint J (other
\* endpoints pairwise farther apart than the tolerance and farther than the
\* tolerance from J), merge_polylines returns exactly two paths for every input
\* order and orientation and whatever the tolerance.
C23_Original ==
    pc = "merged" =>
        \A J \in Points : MeetAt(J) => TwoPathsThrough(J)

\* C23 amended: the same for a tolerance > 0.  merge_polylines returns exactly
\* two paths for every input order and orientation: one made of two of the
\* fragments joined through J and the remaining fragment unchanged as a separate
\* path; the fragment left out is fixed by the input order alone (it is the
\* second of the three).
C23_Junction ==
    (pc = "merged" /\ tolerance > 0) =>
        \A J \in Points : MeetAt(J) => TwoPathsThrough(J)

\* three fragments meeting at (2,0), given in different orientations, came out
\* as two paths
C23_Witness ==
    /\ pc = "merged"
    /\ tolerance = 1
    /\ MeetAt(<<200, 0>>)
    /\ polylines[1][1] = <<200, 0>>
    /\ Last(polylines[2]) = <<200, 0>>
    /\ Last(polylines[3]) = <<200, 0>>
    /\ TwoPathsThrough(<<200, 0>>)

\* at tolerance 0 three fragments meeting at (2,0) came out as three paths
C23_ThreePaths ==
    /\ pc = "merged"
    /\ tolerance = 0
    /\ MeetAt(<<200, 0>>)
    /\ Len(merged) = 3


\* the returned corridor that holds input path id
CorridorHolding(id) ==
    CHOOSE k \in 1..Len(clusteredIds) : Occurrences(clusteredIds[k], id) > 0

\* C24: cluster distance is the grouping criterion.  When cluster_roads
\* returns, any two input paths that have an endpoint pair at distance
\* < cluster_distance are in the same returned corridor.
C24_CloseEndsSameCorridor ==
    pc = "clustered" =>
        \A i, j \in 1..Len(roads) :
            (i # j /\ CloseEnds(roads[i], roads[j], cluster_distance)) =>
                CorridorHolding(i) = CorridorHolding(j)


\* the points of a sequence are pairwise distinct
Distinct(pl) == \A a, b \in 1..Len(pl) : a # b => pl[a] # pl[b]

\* the points of candidate o, from position k on, that the accumulator acc did
\* not hold when o was absorbed, in candidate order
RECURSIVE NewPoints(_, _, _)
NewPoints(acc, o, k) ==
    IF k > Len(o) THEN <<>>
    ELSE IF \E n \in 1..Len(acc) : acc[n] = o[k]
         THEN NewPoints(acc, o, k + 1)
         ELSE <<o[k]>> \o NewPoints(acc, o, k + 1)

\* the accumulator after the candidates ids[k..] were absorbed one after another
RECURSIVE AbsorbedAll(_, _, _)
AbsorbedAll(acc, ids, k) ==
    IF k > Len(ids) THEN acc
    ELSE AbsorbedAll(acc \o NewPoints(acc, roads[ids[k]], 1), ids, k + 1)

\* this step absorbs at least one candidate into the accumulator
IsAbsorb ==
    /\ pc = "cluster_scan"
    /\ pc' = "cluster_scan"
    /\ Len(baseIds') > Len(baseIds)

\* C25: cluster append with exact-value deduplication.  When candidates are
\* absorbed, the accumulator's point sequence is kept as a prefix (its first
\* point never changes) and of each candidate only the points the accumulator
\* did not hold when the candidate was absorbed (by equality) are appended, in
\* candidate order; consequently, when every input path has pairwise distinct
\* points, after every step the accumulator and every returned corridor have
\* pairwise distinct points.
C25_DedupAppend ==
    [][/\ IsAbsorb =>
            /\ SubSeq(baseIds', 1, Len(baseIds)) = baseIds
            /\ SubSeq(base', 1, Len(base)) = base
            /\ base'[1] = base[1]
            /\ base' = AbsorbedAll(base,
                           SubSeq(baseIds', Len(baseIds) + 1, Len(baseIds')), 1)
       /\ (\A id \in 1..Len(roads) : Distinct(roads[id])) =>
            /\ pc' = "cluster_scan" => Distinct(base')
            /\ \A k \in 1..Len(clustered') : Distinct(clustered'[k])]_vars

\* a corridor of three distinct points was folded from two paths of two
\* distinct points each: the point both paths hold was taken once
C25_Witness ==
    /\ pc = "clustered"
    /\ Len(roads) = 2
    /\ \A id \in 1..2 : Len(roads[id]) = 2 /\ Distinct(roads[id])
    /\ Len(clustered) = 1
    /\ Len(clustered[1]) = 3
    /\ Distinct(clustered[1])
    /\ SubSeq(clustered[1], 1, 2) = roads[2]

\* a candidate that repeats a point the accumulator does not hold brought it
\* twice
C25_RepeatedInCandidate ==
    /\ pc = "clustered"
    /\ Len(roads) = 2
    /\ roads[1] = << <<100, 0>>, <<200, 0>>, <<200, 0>> >>
    /\ clustered = << roads[2] \o << <<200, 0>>, <<200, 0>> >> >>


\* C26: length-filter boundary.  In every copy of the pipeline a corridor whose
\* length is exactly min_road_length is kept as a road (when the cut to
\* max_roads_output leaves room for every corridor that is not shorter).
C26_BoundaryKept ==
    (/\ pc = "done"
     /\ Cardinality({k \in 1..Len(clustered) :
                        polyline_length(clustered[k]) >= min_road_length})
            <= max_roads_output) =>
        \A k \in 1..Len(clustered) :
            polyline_length(clustered[k]) = min_road_length =>
                \E j \in 1..Len(final_roads) : final_roads[j] = clustered[k]

\* create_map kept a corridor of exactly the minimum length
C26_KeptInCreateMap ==
    /\ pc = "done"
    /\ impl = "create_map"
    /\ Len(clustered) = 1
    /\ polyline_length(clustered[1]) = min_road_length
    /\ final_roads = clustered


\* the call has returned with its pool empty
Returned == pc \in {"merged", "clustered"} /\ pool = <<>>

\* C27: termination.  Every call of merge_polylines and of cluster_roads
\* returns, with the pool empty: the pool never grows, every pop of an outer
\* iteration and every stitch or absorbing pass, after which the scan restarts,
\* makes it strictly smaller, a stitch and a pop by exactly one element.
C27_Terminates ==
    /\ <>Returned
    /\ [][/\ Len(pool') <= Len(pool)
          /\ pc' \in {"merge_scan", "cluster_scan"} => Len(pool') < Len(pool)
          /\ pc' = "merge_scan" => Len(pool') = Len(pool) - 1
          /\ (pc = "cluster" /\ pc' = "cluster_scan") => Len(pool') = Len(pool) - 1]_vars

\* merge_polylines has returned after two stitches into one accumulator
C27_Witness ==
    /\ pc = "merged"
    /\ pool = <<>>
    /\ Len(polylines) = 3
    /\ Len(merged) = 1
    /\ tolerance = 150

\* cluster_roads has returned after one pass absorbed two candidates
C27_ClusterReturned ==
    /\ pc = "clustered"
    /\ pool = <<>>
    /\ Len(roads) = 3
    /\ Len(clustered) = 1
    /\ cluster_distance = 100


\* C28: the copies of the pipeline are equivalent in what they return.  For
\* every input list, whichever of its positions hold the same list object, the
\* list road_LW.merge_polylines returns is the list create_map.merge_polylines
\* (and PlotAnalyzer._merge_polylines, the same statements on a copy) returns
\* for the same input and tolerance, path by path in the same order, and the
\* list road_LW.cluster_roads returns is the list create_map.cluster_roads
\* returns for the same paths and cluster distance.
C28_SameResults ==
    /\ pc = "lw_merged" => merged = merge_polylines(polylines, tolerance)
    /\ pc = "lw_clustered" => clustered = cluster_roads(roads, cluster_distance)

\* the target's width in the list of two roads where the second road is given
\* with its points in the opposite order
WidthWithNeighbourReversed ==
    find_parallel_edge(1, <<final_roads[1], Reverse(final_roads[2])>>, angle_tol)[2]

\* C29: bearings are directed.  bearing returns a value in [0, 360) and
\* angle_difference a value in [0, 180] (degrees); with an angle tolerance
\* below 180 a road whose first-to-last bearing differs from the target's by
\* 180 degrees is never the parallel edge find_parallel_edge returns; and for
\* a target with one neighbour, at a positive average distance, the width is
\* positive when the neighbour runs in the target's direction and 0 when it
\* runs in the opposite direction, so that reversing the neighbour's point
\* order changes the width from positive to 0, and from 0 to positive.
C29_DirectedBearings ==
    (pc = "reported" /\ NonZeroWidths = {} /\ angle_tol < 180000) =>
        /\ \A t \in 1..Len(final_roads) :
              /\ RoadBearing(t) \in 0..359999
              /\ \A k \in 1..Len(final_roads) :
                    LET diff == angle_difference(RoadBearing(t), RoadBearing(k))
                    IN  /\ diff \in 0..180000
                        /\ diff = 180000 =>
                              find_parallel_edge(t, final_roads, angle_tol)[1] # k
        /\ (Len(final_roads) = 2 /\ RoadDistance(1, 2) > 0) =>
              LET diff == angle_difference(RoadBearing(1), RoadBearing(2))
              IN  /\ diff = 0 =>
                        /\ results[1].width_units > 0
                        /\ WidthWithNeighbourReversed = 0
                  /\ diff = 180000 =>
                        /\ results[1].width_units = 0
                        /\ WidthWithNeighbourReversed > 0

\* C29 witness: the road (0,0)-(10,0) with the only neighbour (10,5)-(0,5),
\* drawn in the opposite direction, was given width 0; with the neighbour
\* drawn as (0,5)-(10,5) it is given 5.
C29_Witness ==
    /\ pc = "reported"
    /\ NonZeroWidths = {}
    /\ angle_tol = PARALLEL_ANGLE_TOL
    /\ final_roads = << << <<0, 0>>, <<1000, 0>> >>, << <<1000, 500>>, <<0, 500>> >> >>
    /\ angle_difference(RoadBearing(1), RoadBearing(2)) = 180000
    /\ find_parallel_edge(1, final_roads, angle_tol) = <<0, 0>>
    /\ results[1].width_units = 0
    /\ WidthWithNeighbourReversed = 5000

\* the number of points of a list of polylines
TotalPoints(pls) == SumSeq([k \in 1..Len(pls) |-> Len(pls[k])])

\* the number of stitches that made the returned paths
Stitches == SumSeq([k \in 1..Len(mergedParts) |-> Len(mergedParts[k]) - 1])

\* the points of a list of polylines
PointSet(pls) == UNION {{pls[k][n] : n \in 1..Len(pls[k])} : k \in 1..Len(pls)}

\* C30: point accounting of the merger.  For an input whose polylines each
\* have at least one point, when merge_polylines returns, the number of
\* stitches performed is the number of input polylines minus the number of
\* returned paths, the returned paths have together as many points as the
\* input polylines minus one point for each stitch, and every point of a
\* returned path is a point of an input polyline.
C30_PointAccounting ==
    (pc = "merged" /\ \A k \in 1..Len(polylines) : Len(polylines[k]) >= 1) =>
        /\ Stitches = Len(polylines) - Len(merged)
        /\ TotalPoints(merged) = TotalPoints(polylines) - Stitches
        /\ PointSet(merged) \subseteq PointSet(polylines)

\* C30 witness: three fragments of 2, 1 and 2 points came back as one path of
\* 3 points after two stitches, one of them with the single-point fragment
C30_Witness ==
    /\ pc = "merged"
    /\ Len(polylines) = 3
    /\ Len(polylines[1]) = 2
    /\ Len(polylines[2]) = 1
    /\ Len(polylines[3]) = 2
    /\ Len(merged) = 1
    /\ Stitches = 2
    /\ TotalPoints(polylines) = 5
    /\ TotalPoints(merged) = 3
    /\ Cardinality(PointSet(merged)) = 3

====
